---- MODULE Spec2Model ----
(***************************************************************************)
(* The node-structure extraction of src/scripts/figma-fetch.js             *)
(* (getNodeStructure and the functions it calls): one extraction run, from *)
(* the request for the root subtree to the written report.                 *)
(*                                                                         *)
(* A JavaScript object is a record; a property that is absent (undefined)  *)
(* is a field that is not in the record's DOMAIN.  Where the code copies a *)
(* possibly-undefined property into a new object, the copy holds Undefined.*)
(***************************************************************************)
EXTENDS Integers, Sequences, FiniteSets, TLC

VARIABLES
    pc,            \* position of getNodeStructure: start, awaitRoot, awaitImages, done
    stalled,       \* the request in flight will never deliver 'end' nor 'error'
    requests,      \* every request handed to makeRequest, in order
    responses,     \* the response each settled request got, in order
    rootResult,    \* how the root request settled: none, fetched, notFound, rejected
    imgResult,     \* how the image request settled: none, resolved, rejected
    tree,          \* const node: the input subtree, as fetched
    structure,     \* const structure: the annotated tree
    visited,       \* the ids of the nodes, in the order their tokens were computed
    imageNodeIds,  \* const imageNodeIds
    imageUrls,     \* let imageUrls
    report,        \* the content of figma-node-structure.json
    writes,        \* number of fs.writeFileSync calls
    typeCounts,    \* const typeCounts (the console summary)
    errors,        \* number of console.error calls of the catch block
    outcome,       \* the promise getNodeStructure() returned: pending, resolved, rejected
    \* getFileStructure (get-figma-file-structure)
    filePc,        \* position of getFileStructure: start, awaitFile, awaitPage, done
    fileRequests,  \* every request handed to makeRequest, in order
    fileResponses, \* the response each settled request got, in order
    fileDocument,  \* response.document of the file request
    fileStructure, \* const fileStructure
    pageIndex,     \* index of the page whose request is in flight (from 0)
    fileOutput,    \* the content of figma-file-structure.json
    fileWrites,    \* number of fs.writeFileSync calls
    fileErrors,    \* number of console.error calls of the outer catch block
    \* getEnhancedDesignData (enhanced-figma-extractor)
    enhPc,            \* position: start, awaitRoot, awaitTokens, awaitFile, done
    enhRequests,      \* every request handed to makeRequest, in order
    enhResponses,     \* the response each settled request got, in order
    enhNodeData,      \* const nodeData
    enhTokens,        \* const variables: what getDesignTokens returned
    enhComponentSets, \* const componentSets: what getComponentSets returned
    enhancedData,     \* the content of enhanced-figma-data.json
    enhWrites,        \* number of fs.writeFileSync calls
    enhErrors,        \* number of console.error calls of the catch block
    enhWarnings       \* number of console.warn calls

\* The variables of getNodeStructure.
nodeVars == <<pc, stalled, requests, responses, rootResult, imgResult, tree, structure,
              visited, imageNodeIds, imageUrls, report, writes, typeCounts, errors, outcome>>

\* The variables of getFileStructure.
fileVars == <<filePc, fileRequests, fileResponses, fileDocument, fileStructure, pageIndex,
              fileOutput, fileWrites, fileErrors>>

\* The variables of getEnhancedDesignData.
enhVars == <<enhPc, enhRequests, enhResponses, enhNodeData, enhTokens, enhComponentSets,
             enhancedData, enhWrites, enhErrors, enhWarnings>>

vars == <<nodeVars, fileVars, enhVars>>

-----------------------------------------------------------------------------
(* Bounds *)

\* Largest number of nodes of a generated input tree.
MaxNodes == 3

\* Largest number of pages of a generated file.
MaxPages == 3

\* Largest length in pixels (item spacing, padding, corner radius, stroke
\* weight) of a generated styled node.
MaxPx == 65

-----------------------------------------------------------------------------
(* JavaScript values *)

\* The value read from an absent string property.
Undefined == "<undefined>"
\* The JSON value null, where a string is expected.
Null == "<null>"
\* A variable that holds no object yet.
None == [none |-> TRUE]
\* The JSON value null, where an object is expected.
NullObject == [null |-> TRUE]

\* The object {} .
EmptyObject == <<>>

\* node.f, Undefined when the property is absent.
Get(o, f) == IF f \in DOMAIN o THEN o[f] ELSE Undefined

\* Truthiness of a property value that is a string, a record or absent.
Truthy(v) == v # Undefined /\ v # Null /\ v # ""

NODE_ID == "2033:13526"

\* `${n}` for a number n.
Str(n) == ToString(n)

-----------------------------------------------------------------------------
(* Input trees: what the design source can return as the root subtree *)

\* The kinds of node the generated trees are made of.  NOID and NOTYPE are the
\* malformed nodes (no id, no type); INSTANCE_NOCOMP is an INSTANCE without a
\* componentId; the componentId of INSTANCE names the root's first child, which
\* is a COMPONENT in some trees and not in others.
Kinds == {"FRAME", "TEXT", "VECTOR", "IMAGE_RECT", "INSTANCE", "INSTANCE_NOCOMP",
          "COMPONENT", "NOID", "NOTYPE"}

\* The attributes of a node of each kind, without id, name and children.
\* Lengths of the bounding box are in tenths of a pixel (75 is 7.5).
Attributes(kind) ==
    CASE kind = "FRAME"           -> [type |-> "FRAME"]
      [] kind = "TEXT"            -> [type |-> "TEXT"]
      [] kind = "VECTOR"          -> [type |-> "VECTOR"]
      [] kind = "IMAGE_RECT"      -> [type |-> "RECTANGLE",
                                      fills |-> <<[type |-> "IMAGE", imageRef |-> "ref"]>>,
                                      absoluteBoundingBox |-> [width |-> 160, height |-> 75]]
      [] kind = "INSTANCE"        -> [type |-> "INSTANCE", componentId |-> NODE_ID \o ".1"]
      [] kind = "INSTANCE_NOCOMP" -> [type |-> "INSTANCE"]
      [] kind = "COMPONENT"       -> [type |-> "COMPONENT"]
      [] kind = "NOID"            -> [type |-> "FRAME"]
      [] kind = "NOTYPE"          -> EmptyObject
      [] kind = "VERTICAL_FRAME"  -> [type |-> "FRAME", layoutMode |-> "VERTICAL"]
      [] kind = "TEXT_24"         -> [type |-> "TEXT", fontSize |-> 24]
      [] kind = "SOLID_RECT"      -> [type |-> "RECTANGLE",
                                      fills |-> <<[type |-> "SOLID",
                                                   color |-> [r |-> 0, g |-> 0, b |-> 0]]>>]
      [] kind = "MIXED_FRAME"     -> [type |-> "FRAME",
                                      fills |-> <<[type |-> "SOLID",
                                                   color |-> [r |-> 0, g |-> 0, b |-> 0]],
                                                  [type |-> "IMAGE", imageRef |-> "ref2"]>>]

\* A node of the given kind: a leaf has no children property.
MakeNode(kind, id, kids) ==
    Attributes(kind) @@ [name |-> "Node " \o id]
      @@ (IF kind = "NOID" THEN EmptyObject ELSE [id |-> id])
      @@ (IF kids = <<>> THEN EmptyObject ELSE [children |-> kids])

RECURSIVE TreesOf(_, _, _), ForestsOf(_, _, _, _)
\* The trees of exactly n nodes rooted at id, every node of a kind in K.
TreesOf(K, id, n) ==
    { MakeNode(kind, id, kids) : kind \in K, kids \in ForestsOf(K, id, 1, n - 1) }
\* The sequences of trees of n nodes in all, the first with id parent.k .
ForestsOf(K, parent, k, n) ==
    IF n = 0 THEN { <<>> }
    ELSE UNION { { <<t>> \o f : t \in TreesOf(K, parent \o "." \o Str(k), m),
                                 f \in ForestsOf(K, parent, k + 1, n - m) }
                 : m \in 1..n }

\* The tree of spec section 8: a root with children [A, B], A with 2 children.
ExampleTree ==
    MakeNode("VERTICAL_FRAME", NODE_ID,
        << MakeNode("COMPONENT", NODE_ID \o ".1",
               << MakeNode("TEXT_24", NODE_ID \o ".1.1", <<>>),
                  MakeNode("IMAGE_RECT", NODE_ID \o ".1.2", <<>>) >>),
           MakeNode("INSTANCE", NODE_ID \o ".2", <<>>) >>)

InputTrees == UNION { TreesOf(Kinds, NODE_ID, n) : n \in 1..MaxNodes } \cup { ExampleTree }

-----------------------------------------------------------------------------
(* Styled input trees: nodes that carry the attributes the tokens derive from *)

\* The kinds of node of the trees that exercise the image collection: with an
\* IMAGE fill alone, with an IMAGE fill behind a SOLID one on a FRAME, with a
\* SOLID fill only and without fills.
ImageKinds == {"FRAME", "IMAGE_RECT", "MIXED_FRAME", "SOLID_RECT"}

ImageTrees == UNION { TreesOf(ImageKinds, NODE_ID, n) : n \in 1..MaxNodes }

\* A single FRAME (or what attrs says) with the given attributes.
StyledNode(attrs) ==
    attrs @@ [id |-> NODE_ID, name |-> "Node " \o NODE_ID, type |-> "FRAME"]

\* Colours, the channels in thousandths: the keys of the two tables that the
\* thousandths reach, colours one off a key in a single channel, and others.
White == [r |-> 1000, g |-> 1000, b |-> 1000]
Black == [r |-> 0, g |-> 0, b |-> 0]
Colors ==
    { White, Black,
      [r |-> 937, g |-> 267, b |-> 267],    \* 239 68 68
      [r |-> 612, g |-> 639, b |-> 686],    \* 156 163 175
      [r |-> 898, g |-> 906, b |-> 922],    \* 229 231 235
      [r |-> 996, g |-> 1000, b |-> 1000],  \* 254 255 255
      [r |-> 941, g |-> 267, b |-> 267],    \* 240 68 68
      [r |-> 0, g |-> 4, b |-> 0],          \* 0 1 0
      [r |-> 500, g |-> 500, b |-> 500] }   \* 128 128 128

\* Opacities of a paint, in thousandths; a paint may also have none.
Opacities == {0, 250, 500, 1000}

SolidPaintsOf(C) ==
    { [type |-> "SOLID", color |-> c] : c \in C }
    \cup { [type |-> "SOLID", color |-> c, opacity |-> a] : c \in C, a \in Opacities }

\* Paints that paints.find passes over: hidden, or not SOLID.
HiddenPaint == [type |-> "SOLID", visible |-> FALSE, color |-> White]
GradientPaint == [type |-> "GRADIENT_LINEAR"]

FillNodes ==
    { StyledNode([fills |-> <<p>>]) : p \in SolidPaintsOf(Colors) }
    \cup { StyledNode([fills |-> <<q, p>>]) :
              q \in {HiddenPaint, GradientPaint}, p \in SolidPaintsOf({White, Black}) }
    \cup { StyledNode([fills |-> <<HiddenPaint>>]), StyledNode([fills |-> <<>>]),
           StyledNode([fills |-> <<[type |-> "SOLID"]>>]) }

StrokeNodes ==
    { StyledNode([strokes |-> <<p>>, strokeWeight |-> 1]) : p \in SolidPaintsOf(Colors) }
    \cup { StyledNode([strokes |-> <<[type |-> "SOLID", color |-> Black]>>,
                       strokeWeight |-> w]) : w \in 0..MaxPx }
    \cup { StyledNode([strokes |-> <<[type |-> "SOLID", color |-> Black]>>]),
           StyledNode([strokes |-> <<>>, strokeWeight |-> 2]),
           StyledNode([strokeWeight |-> 2]) }

GapNodes ==
    { StyledNode([layoutMode |-> "HORIZONTAL", itemSpacing |-> v]) : v \in 0..MaxPx }

\* Side lengths of the nodes with unequal padding: on the scale and off it.
PaddingSamples == {0, 7, 8, 14, 16, 28}

PaddingNodes ==
    { StyledNode([paddingTop |-> v, paddingRight |-> v, paddingBottom |-> v,
                  paddingLeft |-> v]) : v \in 0..MaxPx }
    \cup { StyledNode([paddingTop |-> t, paddingRight |-> r, paddingBottom |-> b,
                       paddingLeft |-> l]) :
              t \in PaddingSamples, r \in PaddingSamples, b \in PaddingSamples,
              l \in PaddingSamples }
    \cup { StyledNode([paddingTop |-> 16, paddingRight |-> 16, paddingBottom |-> 16]),
           StyledNode([paddingLeft |-> 16, paddingRight |-> 16]),
           StyledNode([paddingLeft |-> 8]) }

RadiusNodes ==
    { StyledNode([cornerRadius |-> v]) : v \in 0..MaxPx \cup {9999} }
    \cup { StyledNode([rectangleCornerRadii |-> <<v, v, v, v>>]) : v \in {0, 5, 8, 9999} }
    \cup { StyledNode([rectangleCornerRadii |-> <<8, 8, 0, 0>>]),
           StyledNode([cornerRadius |-> 8, rectangleCornerRadii |-> <<4, 4, 4, 4>>]) }

\* The tree of spec section 9: a vertical FRAME with padding 16 and a white
\* fill, a TEXT child "Hi" of font size 24 and a RECTANGLE child with an IMAGE
\* fill.
EndToEndTree ==
    [id |-> NODE_ID, name |-> "Root", type |-> "FRAME", layoutMode |-> "VERTICAL",
     paddingTop |-> 16, paddingRight |-> 16, paddingBottom |-> 16, paddingLeft |-> 16,
     fills |-> <<[type |-> "SOLID", color |-> White]>>,
     children |->
        << [id |-> NODE_ID \o ".1", name |-> "Title", type |-> "TEXT", fontSize |-> 24,
            characters |-> "Hi"],
           [id |-> NODE_ID \o ".2", name |-> "Photo", type |-> "RECTANGLE",
            fills |-> <<[type |-> "IMAGE", imageRef |-> "ref"]>>] >>]

\* Nodes with a second fill behind or before a SOLID one.
FillPairNodes ==
    { StyledNode([fills |-> <<p, q>>]) :
        p \in SolidPaintsOf({White}),
        q \in SolidPaintsOf({Black}) \cup {HiddenPaint, GradientPaint} }
    \cup { StyledNode([fills |-> <<HiddenPaint, GradientPaint, p, q>>]) :
             p \in SolidPaintsOf({Black}), q \in SolidPaintsOf({White}) }
    \cup { StyledNode([fills |-> <<GradientPaint, HiddenPaint>>]),
           StyledNode([fills |-> <<[type |-> "SOLID"], [type |-> "SOLID", color |-> White]>>]) }

\* Every combination of layout mode, primary-axis and counter-axis alignment,
\* each of them also absent; BASELINE is a value the maps do not have.
AlignNodes ==
    { StyledNode(l @@ a @@ c) :
        l \in {EmptyObject} \cup {[layoutMode |-> m] : m \in {"HORIZONTAL", "VERTICAL"}},
        a \in {EmptyObject} \cup {[primaryAxisAlignItems |-> v] :
                                    v \in {"MIN", "CENTER", "MAX", "SPACE_BETWEEN"}},
        c \in {EmptyObject} \cup {[counterAxisAlignItems |-> v] :
                                    v \in {"MIN", "CENTER", "MAX", "BASELINE"}} }

\* Lengths of a bounding box, in tenths of a pixel: whole, just below a half, a
\* half, on the spacing scale (16) and off it.
SizeSamples == {0, 4, 5, 74, 75, 160, 165, 1604}

SizeNodes ==
    { StyledNode([absoluteBoundingBox |-> [width |-> w, height |-> h]]) :
        w \in SizeSamples, h \in SizeSamples }

\* One group of attributes per definition of the tailwind object.
ShadowEffect ==
    [type |-> "DROP_SHADOW", visible |-> TRUE, offset |-> [x |-> 0, y |-> 4], radius |-> 6,
     color |-> [r |-> 0, g |-> 0, b |-> 0, a |-> 250]]

AttributeGroups ==
    << [layoutMode |-> "VERTICAL"],
       [primaryAxisAlignItems |-> "CENTER"],
       [counterAxisAlignItems |-> "MAX"],
       [itemSpacing |-> 8],
       [absoluteBoundingBox |-> [width |-> 160, height |-> 75]],
       [paddingTop |-> 16, paddingRight |-> 8, paddingBottom |-> 16, paddingLeft |-> 8],
       [fills |-> <<[type |-> "SOLID", color |-> [r |-> 937, g |-> 267, b |-> 267]]>>],
       [strokes |-> <<[type |-> "SOLID", color |-> Black]>>, strokeWeight |-> 2],
       [cornerRadius |-> 4],
       [fontSize |-> 24],
       [fontName |-> [family |-> "Inter", style |-> "Bold"]],
       [lineHeight |-> [unit |-> "PIXELS", value |-> 32]],
       [letterSpacing |-> [unit |-> "PERCENT", value |-> 5]],
       [textAlignHorizontal |-> "CENTER"],
       [opacity |-> 500],
       [effects |-> <<ShadowEffect>>] >>

\* The attributes of the groups of S together.
MergeGroups(S) ==
    LET keys == UNION { DOMAIN AttributeGroups[i] : i \in S }
    IN  [k \in keys |-> AttributeGroups[CHOOSE i \in S : k \in DOMAIN AttributeGroups[i]][k]]

\* FRAME and TEXT nodes with no group, one group, every two groups and all
\* groups of attributes.
OrderNodes ==
    { MergeGroups(S) @@ [id |-> NODE_ID, name |-> "Node " \o NODE_ID, type |-> ty] :
        S \in { T \in SUBSET (1..Len(AttributeGroups)) :
                  Cardinality(T) <= 2 \/ Cardinality(T) = Len(AttributeGroups) },
        ty \in {"FRAME", "TEXT"} }

\* TEXT nodes and nodes with an opacity or an effect.
TextNodes ==
    { [id |-> NODE_ID, name |-> "Node " \o NODE_ID, type |-> "TEXT", characters |-> "Hi"] @@ a :
        a \in { [fontName |-> [family |-> "Georgia", style |-> "Black"]],
                [fontName |-> [family |-> "Arial"]],
                [textAlignHorizontal |-> "JUSTIFIED"],
                [lineHeight |-> [unit |-> "PERCENT", value |-> 150]],
                [lineHeight |-> [unit |-> "AUTO"]],
                [letterSpacing |-> [unit |-> "PIXELS", value |-> 2]],
                [letterSpacing |-> [unit |-> "PERCENT", value |-> 0]],
                [fills |-> <<[type |-> "SOLID", color |-> Black]>>],
                [fills |-> <<[type |-> "SOLID", color |-> White, opacity |-> 500]>>],
                [opacity |-> 0], [opacity |-> 1000], [opacity |-> 995],
                [effects |-> <<[type |-> "INNER_SHADOW", visible |-> TRUE], ShadowEffect>>],
                [effects |-> <<[type |-> "DROP_SHADOW", visible |-> FALSE,
                                offset |-> [x |-> 1, y |-> 1], radius |-> 1,
                                color |-> Black]>>],
                [effects |-> <<[type |-> "DROP_SHADOW", visible |-> TRUE,
                                offset |-> [x |-> 1, y |-> 1], radius |-> 1,
                                color |-> [r |-> 0, g |-> 0, b |-> 0, a |-> 1000]]>>] } }

StyledTrees ==
    ImageTrees \cup FillNodes \cup FillPairNodes \cup StrokeNodes \cup GapNodes
      \cup PaddingNodes \cup RadiusNodes \cup AlignNodes \cup SizeNodes \cup OrderNodes
      \cup TextNodes \cup { EndToEndTree }

-----------------------------------------------------------------------------
(* extractNodeStructure: the walk *)

\* A faulty variant of MathRound: the fraction is dropped.
MathRound_Floor(tenths) == tenths \div 10

\* Math.round of a length given in tenths: the nearest integer, halves up.
MathRound(tenths) == (tenths + 5) \div 10

\* node.children, [] when the node has none.
ChildrenOf(node) == IF "children" \in DOMAIN node THEN node.children ELSE <<>>

\* node.fills.find(fill => fill.type === 'IMAGE'): the fills of kind IMAGE.
ImageFills(node) ==
    IF "fills" \in DOMAIN node
    THEN SelectSeq(node.fills, LAMBDA fill : fill.type = "IMAGE")
    ELSE <<>>

\* structure.imageContent, set on a RECTANGLE with an IMAGE fill.
imageContent(node) ==
    IF Get(node, "type") = "RECTANGLE" /\ ImageFills(node) # <<>>
    THEN [imageContent |-> [type |-> "IMAGE_FILL", imageRef |-> ImageFills(node)[1].imageRef]]
    ELSE EmptyObject

\* tailwind.width and tailwind.height.
tailwindSizing(node) ==
    IF "absoluteBoundingBox" \in DOMAIN node
    THEN [width  |-> "w-[" \o Str(MathRound(node.absoluteBoundingBox.width)) \o "px]",
          height |-> "h-[" \o Str(MathRound(node.absoluteBoundingBox.height)) \o "px]"]
    ELSE EmptyObject

\* A faulty variant of tailwindLayout: every layout mode is laid out as a row.
tailwindLayout_RowOnly(node) ==
    IF Truthy(Get(node, "layoutMode")) THEN [flexDirection |-> "flex flex-row"]
    ELSE IF Get(node, "type") \in {"FRAME", "GROUP"}
         THEN [display |-> "block"]
         ELSE EmptyObject

\* tailwind.flexDirection and tailwind.display.
tailwindLayout(node) ==
    IF Truthy(Get(node, "layoutMode"))
    THEN CASE node.layoutMode = "VERTICAL"   -> [flexDirection |-> "flex flex-col"]
           [] node.layoutMode = "HORIZONTAL" -> [flexDirection |-> "flex flex-row"]
           [] OTHER                          -> EmptyObject
    ELSE IF Get(node, "type") \in {"FRAME", "GROUP"}
         THEN [display |-> "block"]
         ELSE EmptyObject

\* node.layoutMode === 'HORIZONTAL'
IsHorizontal(node) == Get(node, "layoutMode") = "HORIZONTAL"

\* alignMap of node.primaryAxisAlignItems.
alignMap(node) ==
    [MIN           |-> IF IsHorizontal(node) THEN "justify-start" ELSE "items-start",
     CENTER        |-> IF IsHorizontal(node) THEN "justify-center" ELSE "items-center",
     MAX           |-> IF IsHorizontal(node) THEN "justify-end" ELSE "items-end",
     SPACE_BETWEEN |-> "justify-between"]

\* A faulty variant of counterAlignMap: the counter axis is mapped like the
\* primary axis.
counterAlignMap_NotCrossed(node) ==
    [MIN    |-> IF IsHorizontal(node) THEN "justify-start" ELSE "items-start",
     CENTER |-> IF IsHorizontal(node) THEN "justify-center" ELSE "items-center",
     MAX    |-> IF IsHorizontal(node) THEN "justify-end" ELSE "items-end"]

\* counterAlignMap of node.counterAxisAlignItems.
counterAlignMap(node) ==
    [MIN    |-> IF IsHorizontal(node) THEN "items-start" ELSE "justify-start",
     CENTER |-> IF IsHorizontal(node) THEN "items-center" ELSE "justify-center",
     MAX    |-> IF IsHorizontal(node) THEN "items-end" ELSE "justify-end"]

\* tailwind.primaryAlignment and tailwind.counterAlignment.
tailwindAlignment(node) ==
    (IF Truthy(Get(node, "primaryAxisAlignItems"))
        /\ node.primaryAxisAlignItems \in DOMAIN alignMap(node)
     THEN [primaryAlignment |-> alignMap(node)[node.primaryAxisAlignItems]]
     ELSE EmptyObject)
    @@ (IF Truthy(Get(node, "counterAxisAlignItems"))
           /\ node.counterAxisAlignItems \in DOMAIN counterAlignMap(node)
        THEN [counterAlignment |-> counterAlignMap(node)[node.counterAxisAlignItems]]
        ELSE EmptyObject)

\* (percent / 100).toFixed(1), for a whole percent that is a multiple of 10.
ToFixed1(percent) == Str(percent \div 100) \o "." \o Str((percent % 100) \div 10)

\* (percent / 100).toFixed(3), for a whole percent.
ToFixed3(percent) ==
    Str(percent \div 100) \o "." \o (IF percent % 100 < 10 THEN "0" ELSE "")
        \o Str(percent % 100) \o "0"

\* tailwind.lineHeight: node.lineHeight is an object with a nonzero value.
tailwindLineHeight(node) ==
    IF "lineHeight" \in DOMAIN node /\ "value" \in DOMAIN node.lineHeight
       /\ node.lineHeight.value # 0
    THEN CASE Get(node.lineHeight, "unit") = "PIXELS" ->
                [lineHeight |-> "leading-[" \o Str(node.lineHeight.value) \o "px]"]
           [] Get(node.lineHeight, "unit") = "PERCENT" ->
                [lineHeight |-> "leading-[" \o ToFixed1(node.lineHeight.value) \o "]"]
           [] OTHER -> EmptyObject
    ELSE EmptyObject

\* tailwind.letterSpacing: node.letterSpacing is an object with a nonzero value.
tailwindLetterSpacing(node) ==
    IF "letterSpacing" \in DOMAIN node /\ "value" \in DOMAIN node.letterSpacing
       /\ node.letterSpacing.value # 0
    THEN CASE Get(node.letterSpacing, "unit") = "PIXELS" ->
                [letterSpacing |-> "tracking-[" \o Str(node.letterSpacing.value) \o "px]"]
           [] Get(node.letterSpacing, "unit") = "PERCENT" ->
                [letterSpacing |-> "tracking-[" \o ToFixed3(node.letterSpacing.value) \o "em]"]
           [] OTHER -> EmptyObject
    ELSE EmptyObject

fontMap ==
    [Inter |-> "font-inter", Roboto |-> "font-roboto", Arial |-> "font-sans",
     Helvetica |-> "font-sans"]

weightMap ==
    [Regular |-> "font-normal", Medium |-> "font-medium", SemiBold |-> "font-semibold",
     Bold |-> "font-bold", Light |-> "font-light", Thin |-> "font-thin"]

\* tailwind.fontFamily and tailwind.fontWeight.
tailwindFontName(node) ==
    IF "fontName" \in DOMAIN node
    THEN [fontFamily |-> IF Get(node.fontName, "family") \in DOMAIN fontMap
                         THEN fontMap[node.fontName.family]
                         ELSE "font-['" \o Get(node.fontName, "family") \o "']"]
         @@ (IF Truthy(Get(node.fontName, "style"))
             THEN [fontWeight |-> IF node.fontName.style \in DOMAIN weightMap
                                  THEN weightMap[node.fontName.style] ELSE "font-normal"]
             ELSE EmptyObject)
    ELSE EmptyObject

\* alignMap of node.textAlignHorizontal.
textAlignMap ==
    [LEFT |-> "text-left", CENTER |-> "text-center", RIGHT |-> "text-right",
     JUSTIFIED |-> "text-justify"]

\* tailwind.textAlign.
tailwindTextAlign(node) ==
    IF Truthy(Get(node, "textAlignHorizontal"))
    THEN [textAlign |-> IF node.textAlignHorizontal \in DOMAIN textAlignMap
                        THEN textAlignMap[node.textAlignHorizontal] ELSE "text-left"]
    ELSE EmptyObject

\* tailwind.opacity, node.opacity being in thousandths.
tailwindOpacity(node) ==
    IF "opacity" \in DOMAIN node /\ node.opacity # 1000
    THEN [opacity |-> "opacity-[" \o Str((node.opacity * 100 + 500) \div 1000) \o "%]"]
    ELSE EmptyObject

\* tailwind.fontSize.
tailwindFontSize(node) ==
    IF "fontSize" \in DOMAIN node /\ node.fontSize # 0
    THEN [fontSize |-> "text-[" \o Str(node.fontSize) \o "px]"]
    ELSE EmptyObject

\* Math.round(c * 255) of a colour channel c given in thousandths.
MathRound255(thousandths) == (thousandths * 255 + 500) \div 1000

\* `${alpha}` for an alpha given in thousandths: 1000 is "1", 500 is "0.5".
AlphaStr(thousandths) ==
    IF thousandths % 1000 = 0 THEN Str(thousandths \div 1000)
    ELSE LET whole == Str(thousandths \div 1000)
             frac  == thousandths % 1000
         IN  IF frac % 100 = 0 THEN whole \o "." \o Str(frac \div 100)
             ELSE IF frac % 10 = 0
                  THEN whole \o "." \o (IF frac < 100 THEN "0" ELSE "") \o Str(frac \div 10)
                  ELSE whole \o "." \o (IF frac < 10 THEN "00" ELSE IF frac < 100 THEN "0" ELSE "")
                             \o Str(frac)

\* A faulty variant of SolidPaints: a hidden paint is not passed over.
SolidPaints_Hidden(paints) == SelectSeq(paints, LAMBDA paint : paint.type = "SOLID")

\* paints.find(paint => paint.type === 'SOLID' && paint.visible !== false):
\* the paints that pass the test, the one found first.
SolidPaints(paints) ==
    SelectSeq(paints, LAMBDA paint :
        paint.type = "SOLID" /\ ~("visible" \in DOMAIN paint /\ paint.visible = FALSE))

\* const rgb = `${Math.round(r * 255)} ${Math.round(g * 255)} ${Math.round(b * 255)}`
rgbOf(color) ==
    Str(MathRound255(color.r)) \o " " \o Str(MathRound255(color.g)) \o " "
        \o Str(MathRound255(color.b))

\* const alpha = paint.opacity || 1, in thousandths.
alphaOf(paint) ==
    IF "opacity" \in DOMAIN paint /\ paint.opacity # 0 THEN paint.opacity ELSE 1000

commonColors ==
    ("255 255 255" :> "bg-white") @@ ("0 0 0" :> "bg-black")
      @@ ("239 68 68" :> "bg-red-500") @@ ("34 197 94" :> "bg-green-500")
      @@ ("59 130 246" :> "bg-blue-500") @@ ("168 85 247" :> "bg-purple-500")
      @@ ("245 101 101" :> "bg-red-400") @@ ("156 163 175" :> "bg-gray-400")

commonBorderColors ==
    ("255 255 255" :> "border-white") @@ ("0 0 0" :> "border-black")
      @@ ("229 231 235" :> "border-gray-200") @@ ("156 163 175" :> "border-gray-400")
      @@ ("75 85 99" :> "border-gray-600")

\* A faulty variant of colorClass: a colour one off a key of the table in some
\* channels gets the name of that key.
colorClass_Nearest(prefix, table, paint) ==
    LET alpha == alphaOf(paint)
        rgb   == rgbOf(paint.color)
        near  == { k \in DOMAIN table : \E dr, dg, db \in {-1, 0, 1} :
                      k = Str(MathRound255(paint.color.r) + dr) \o " "
                            \o Str(MathRound255(paint.color.g) + dg) \o " "
                            \o Str(MathRound255(paint.color.b) + db) }
    IN  IF alpha = 1000 /\ near # {} THEN table[CHOOSE k \in near : TRUE]
        ELSE IF alpha < 1000
             THEN prefix \o "-[rgb(" \o rgb \o "/" \o AlphaStr(alpha) \o ")]"
             ELSE prefix \o "-[rgb(" \o rgb \o ")]"

\* The three-way choice of the colour class of a paint, for a prefix (bg,
\* border) and its table of common colours.
colorClass(prefix, table, paint) ==
    LET alpha == alphaOf(paint)
        rgb   == rgbOf(paint.color)
    IN  IF alpha = 1000 /\ rgb \in DOMAIN table THEN table[rgb]
        ELSE IF alpha < 1000
             THEN prefix \o "-[rgb(" \o rgb \o "/" \o AlphaStr(alpha) \o ")]"
             ELSE prefix \o "-[rgb(" \o rgb \o ")]"

\* tailwind.backgroundColor.
tailwindBackgroundColor(node) ==
    IF "fills" \in DOMAIN node /\ Len(node.fills) > 0
       /\ SolidPaints(node.fills) # <<>> /\ "color" \in DOMAIN SolidPaints(node.fills)[1]
    THEN [backgroundColor |-> colorClass("bg", commonColors, SolidPaints(node.fills)[1])]
    ELSE EmptyObject

borderWidthMap == (1 :> "border") @@ (2 :> "border-2") @@ (4 :> "border-4") @@ (8 :> "border-8")

\* tailwind.borderWidth and tailwind.borderColor.
tailwindStroke(node) ==
    IF "strokes" \in DOMAIN node /\ Len(node.strokes) > 0
    THEN (IF "strokeWeight" \in DOMAIN node /\ node.strokeWeight # 0
          THEN [borderWidth |-> IF node.strokeWeight \in DOMAIN borderWidthMap
                                THEN borderWidthMap[node.strokeWeight]
                                ELSE "border-[" \o Str(node.strokeWeight) \o "px]"]
          ELSE EmptyObject)
         @@ (IF SolidPaints(node.strokes) # <<>>
                /\ "color" \in DOMAIN SolidPaints(node.strokes)[1]
             THEN [borderColor |->
                     colorClass("border", commonBorderColors, SolidPaints(node.strokes)[1])]
             ELSE EmptyObject)
    ELSE EmptyObject

gapMap ==
    (0 :> "gap-0") @@ (1 :> "gap-0.5") @@ (2 :> "gap-0.5") @@ (4 :> "gap-1")
      @@ (6 :> "gap-1.5") @@ (8 :> "gap-2") @@ (10 :> "gap-2.5") @@ (12 :> "gap-3")
      @@ (16 :> "gap-4") @@ (20 :> "gap-5") @@ (24 :> "gap-6") @@ (32 :> "gap-8")

\* A faulty variant of tailwindGap: a value off the scale is snapped down to the
\* nearest key.
tailwindGap_SnapDown(node) ==
    IF "itemSpacing" \in DOMAIN node
    THEN LET below == { k \in DOMAIN gapMap : k <= node.itemSpacing }
         IN  [gap |-> IF below # {}
                      THEN gapMap[CHOOSE k \in below : \A j \in below : j <= k]
                      ELSE "gap-[" \o Str(node.itemSpacing) \o "px]"]
    ELSE EmptyObject

\* tailwind.gap.
tailwindGap(node) ==
    IF "itemSpacing" \in DOMAIN node
    THEN [gap |-> IF node.itemSpacing \in DOMAIN gapMap THEN gapMap[node.itemSpacing]
                  ELSE "gap-[" \o Str(node.itemSpacing) \o "px]"]
    ELSE EmptyObject

spacingMap ==
    (0 :> "0") @@ (1 :> "0.5") @@ (2 :> "0.5") @@ (4 :> "1") @@ (6 :> "1.5") @@ (8 :> "2")
      @@ (10 :> "2.5") @@ (12 :> "3") @@ (14 :> "3.5") @@ (16 :> "4") @@ (20 :> "5")
      @@ (24 :> "6") @@ (28 :> "7") @@ (32 :> "8") @@ (36 :> "9") @@ (40 :> "10")
      @@ (44 :> "11") @@ (48 :> "12") @@ (56 :> "14") @@ (64 :> "16")

\* spacingMap[node.f] ? `${side}-${spacingMap[node.f]}` : `${side}-[${node.f}px]`,
\* where an absent node.f is undefined.
sideSpacing(side, node, f) ==
    IF f \in DOMAIN node
    THEN IF node[f] \in DOMAIN spacingMap THEN side \o "-" \o spacingMap[node[f]]
         ELSE side \o "-[" \o Str(node[f]) \o "px]"
    ELSE side \o "-[undefinedpx]"

\* node.f === node.g, for two properties that are numbers or absent.
SameValue(node, f, g) ==
    IF f \in DOMAIN node /\ g \in DOMAIN node THEN node[f] = node[g]
    ELSE f \notin DOMAIN node /\ g \notin DOMAIN node

\* A faulty variant of tailwindPadding: the sides are compared in pairs only
\* (top with bottom, left with right).
tailwindPadding_Pairs(node) ==
    IF "paddingLeft" \in DOMAIN node
    THEN IF SameValue(node, "paddingTop", "paddingBottom")
            /\ SameValue(node, "paddingRight", "paddingLeft")
         THEN [padding |-> sideSpacing("p", node, "paddingTop")]
         ELSE [padding |-> sideSpacing("pt", node, "paddingTop") \o " "
                           \o sideSpacing("pr", node, "paddingRight") \o " "
                           \o sideSpacing("pb", node, "paddingBottom") \o " "
                           \o sideSpacing("pl", node, "paddingLeft")]
    ELSE EmptyObject

\* tailwind.padding.
tailwindPadding(node) ==
    IF "paddingLeft" \in DOMAIN node
    THEN IF SameValue(node, "paddingTop", "paddingRight")
            /\ SameValue(node, "paddingRight", "paddingBottom")
            /\ SameValue(node, "paddingBottom", "paddingLeft")
         THEN [padding |-> sideSpacing("p", node, "paddingTop")]
         ELSE [padding |-> sideSpacing("pt", node, "paddingTop") \o " "
                           \o sideSpacing("pr", node, "paddingRight") \o " "
                           \o sideSpacing("pb", node, "paddingBottom") \o " "
                           \o sideSpacing("pl", node, "paddingLeft")]
    ELSE EmptyObject

\* The roundedMap of node.rectangleCornerRadii.
cornerRoundedMap ==
    (0 :> "rounded-none") @@ (2 :> "rounded-sm") @@ (4 :> "rounded") @@ (6 :> "rounded-md")
      @@ (8 :> "rounded-lg") @@ (12 :> "rounded-xl") @@ (16 :> "rounded-2xl")
      @@ (24 :> "rounded-3xl")

\* The roundedMap of node.cornerRadius.
roundedMap == cornerRoundedMap @@ (9999 :> "rounded-full")

\* tailwind.borderRadius: node.rectangleCornerRadii, when present, overwrites
\* what node.cornerRadius has set.
tailwindBorderRadius(node) ==
    IF "rectangleCornerRadii" \in DOMAIN node
    THEN LET tl == node.rectangleCornerRadii[1]
             tr == node.rectangleCornerRadii[2]
             br == node.rectangleCornerRadii[3]
             bl == node.rectangleCornerRadii[4]
         IN  IF tl = tr /\ tr = br /\ br = bl
             THEN [borderRadius |-> IF tl \in DOMAIN cornerRoundedMap THEN cornerRoundedMap[tl]
                                    ELSE "rounded-[" \o Str(tl) \o "px]"]
             ELSE [borderRadius |-> "[border-radius:" \o Str(tl) \o "px_" \o Str(tr) \o "px_"
                                      \o Str(br) \o "px_" \o Str(bl) \o "px]"]
    ELSE IF "cornerRadius" \in DOMAIN node
         THEN [borderRadius |-> IF node.cornerRadius \in DOMAIN roundedMap
                                THEN roundedMap[node.cornerRadius]
                                ELSE "rounded-[" \o Str(node.cornerRadius) \o "px]"]
         ELSE EmptyObject

commonTextColors ==
    ("0 0 0" :> "text-black") @@ ("255 255 255" :> "text-white")
      @@ ("107 114 128" :> "text-gray-500") @@ ("75 85 99" :> "text-gray-600")
      @@ ("55 65 81" :> "text-gray-700") @@ ("31 41 55" :> "text-gray-800")
      @@ ("17 24 39" :> "text-gray-900")

\* tailwind.textColor, of a TEXT node.
tailwindTextColor(node) ==
    IF "fills" \in DOMAIN node /\ Len(node.fills) > 0 /\ Get(node, "type") = "TEXT"
       /\ SolidPaints(node.fills) # <<>> /\ "color" \in DOMAIN SolidPaints(node.fills)[1]
    THEN [textColor |-> colorClass("text", commonTextColors, SolidPaints(node.fills)[1])]
    ELSE EmptyObject

\* node.effects.find(effect => effect.type === 'DROP_SHADOW' && effect.visible)
DropShadows(node) ==
    IF "effects" \in DOMAIN node
    THEN SelectSeq(node.effects, LAMBDA effect :
             effect.type = "DROP_SHADOW" /\ "visible" \in DOMAIN effect /\ effect.visible)
    ELSE <<>>

\* tailwind.shadow: the colour has channels r, g, b and maybe a, in thousandths.
tailwindShadow(node) ==
    IF DropShadows(node) # <<>>
    THEN LET dropShadow == DropShadows(node)[1]
             alpha == IF "a" \in DOMAIN dropShadow.color /\ dropShadow.color.a # 0
                      THEN dropShadow.color.a ELSE 1000
             lengths == Str(dropShadow.offset.x) \o "px_" \o Str(dropShadow.offset.y)
                          \o "px_" \o Str(dropShadow.radius) \o "px_"
         IN  [shadow |-> "shadow-[" \o lengths \o "rgb(" \o rgbOf(dropShadow.color)
                           \o (IF alpha < 1000 THEN "/" \o AlphaStr(alpha) ELSE "") \o ")]"]
    ELSE EmptyObject

\* const tailwind = {} and the definitions the node's attributes add to it.
tailwindOf(node) ==
    tailwindSizing(node) @@ tailwindBackgroundColor(node) @@ tailwindStroke(node)
      @@ tailwindLayout(node) @@ tailwindAlignment(node) @@ tailwindGap(node)
      @@ tailwindPadding(node) @@ tailwindBorderRadius(node) @@ tailwindFontSize(node)
      @@ tailwindLineHeight(node) @@ tailwindLetterSpacing(node)
      @@ tailwindTextColor(node) @@ tailwindFontName(node) @@ tailwindTextAlign(node)
      @@ tailwindOpacity(node) @@ tailwindShadow(node)

\* A faulty variant of ClassOrder: the colours are pushed before the spacing.
ClassOrder_ColoursFirst ==
    << "display", "flexDirection", "primaryAlignment", "counterAlignment", "gap",
       "width", "height", "backgroundColor", "padding", "borderWidth", "borderColor",
       "borderRadius", "fontSize", "fontFamily", "fontWeight", "lineHeight",
       "letterSpacing", "textAlign", "textColor", "opacity", "shadow" >>

\* The order in which the definitions are pushed onto tailwindClasses.
ClassOrder ==
    << "display", "flexDirection", "primaryAlignment", "counterAlignment", "gap",
       "width", "height", "padding", "backgroundColor", "borderWidth", "borderColor",
       "borderRadius", "fontSize", "fontFamily", "fontWeight", "lineHeight",
       "letterSpacing", "textAlign", "textColor", "opacity", "shadow" >>

\* if (tailwind.x) tailwindClasses.push(tailwind.x), for every x in order.
RECURSIVE PushDefined(_, _)
PushDefined(tailwind, k) ==
    IF k > Len(ClassOrder) THEN <<>>
    ELSE (IF ClassOrder[k] \in DOMAIN tailwind THEN <<tailwind[ClassOrder[k]]>> ELSE <<>>)
         \o PushDefined(tailwind, k + 1)

\* The default class of a node without specific styling, by node.type.
DefaultClass(type) ==
    CASE type = "TEXT"                            -> "text-base"
      [] type \in {"VECTOR", "BOOLEAN_OPERATION"} -> "inline-block"
      [] OTHER                                    -> "block"

\* A faulty variant of tailwindClassesOf: the default classes are forgotten.
tailwindClassesOf_NoDefault(node) == PushDefined(tailwindOf(node), 1)

\* const tailwindClasses, the default classes included.
tailwindClassesOf(node) ==
    LET pushed == PushDefined(tailwindOf(node), 1)
    IN  IF Len(pushed) = 0 THEN << DefaultClass(Get(node, "type")) >> ELSE pushed

\* tailwindClasses.join(' ')
RECURSIVE Join(_)
Join(classes) ==
    IF classes = <<>> THEN ""
    ELSE IF Len(classes) = 1 THEN classes[1]
    ELSE classes[1] \o " " \o Join(Tail(classes))

RECURSIVE extractNodeStructure(_, _)

\* A faulty variant of childStructures: the last child is dropped.
childStructures_DropLast(node, depth) ==
    [i \in 1..(Len(node.children) - 1) |->
        extractNodeStructure(node.children[i], depth + 1)]

\* node.children.map(child => extractNodeStructure(child, depth + 1))
childStructures(node, depth) ==
    [i \in 1..Len(node.children) |-> extractNodeStructure(node.children[i], depth + 1)]

extractNodeStructure(node, depth) ==
    [id |-> Get(node, "id"), name |-> Get(node, "name"), type |-> Get(node, "type"),
     depth |-> depth]
      @@ imageContent(node)
      @@ (IF Truthy(Get(node, "characters")) THEN [text |-> node.characters] ELSE EmptyObject)
      @@ (IF Truthy(Get(node, "componentId"))
          THEN [componentId |-> node.componentId] ELSE EmptyObject)
      @@ [tailwindClasses |-> Join(tailwindClassesOf(node))]
      @@ (IF Len(ChildrenOf(node)) > 0
          THEN [children |-> childStructures(node, depth),
                childrenCount |-> Len(node.children)]
          ELSE EmptyObject)

RECURSIVE visitOrder(_), visitOrderEach(_, _)

\* A faulty variant of visitOrder: the children are walked before the tokens of
\* their parent are computed.
visitOrder_ChildrenFirst(node) ==
    visitOrderEach(ChildrenOf(node), 1) \o << Get(node, "id") >>

\* The ids of the nodes in the order extractNodeStructure computes their
\* tokens: the tailwind object and class list of a node are built first, its
\* children are mapped after, first to last.
visitOrder(node) == << Get(node, "id") >> \o visitOrderEach(ChildrenOf(node), 1)
visitOrderEach(children, k) ==
    IF k > Len(children) THEN <<>>
    ELSE visitOrder(children[k]) \o visitOrderEach(children, k + 1)

-----------------------------------------------------------------------------
(* makeRequest and what the design source can answer *)

\* A response is the 'error' event of the request, or the 'end' event with a
\* body that JSON.parse rejects or parses to json.
TransportError == [event |-> "error"]
UnparsableBody == [event |-> "end", parses |-> FALSE]
Body(json) == [event |-> "end", parses |-> TRUE, json |-> json]
ApiError == Body([status |-> 404, err |-> "Not found"])

\* A faulty variant of makeRequest: the status of the parsed body is not looked
\* at.
makeRequest_NoStatusCheck(response) ==
    IF response.event = "error" THEN [state |-> "rejected", error |-> "transport"]
    ELSE IF ~response.parses THEN [state |-> "rejected", error |-> "JSON Parse Error"]
    ELSE [state |-> "resolved", value |-> response.json]

\* How the promise of makeRequest settles on a response.
makeRequest(response) ==
    IF response.event = "error" THEN [state |-> "rejected", error |-> "transport"]
    ELSE IF ~response.parses THEN [state |-> "rejected", error |-> "JSON Parse Error"]
    ELSE IF "status" \in DOMAIN response.json /\ response.json.status # 0
            /\ response.json.status # 200
         THEN [state |-> "rejected", error |-> "API Error"]
         ELSE [state |-> "resolved", value |-> response.json]

\* The answers to /v1/files/FILE_KEY/nodes?ids=NODE_ID: a failure, a document
\* for the node, or a body without the node.
RootResponsesOver(trees) ==
    { TransportError, UnparsableBody, ApiError,
      Body([name |-> "file"]), Body([nodes |-> EmptyObject]),
      Body([status |-> 200, nodes |-> EmptyObject]) }
    \cup { Body([nodes |-> (NODE_ID :> [document |-> t])]) : t \in trees }

RootResponses == RootResponsesOver(InputTrees)

\* The same answers, the documents being the styled trees.
StyledRootResponses == RootResponsesOver(StyledTrees)

\* The elements of a sequence.
Range(seq) == { seq[i] : i \in 1..Len(seq) }

\* The images objects the design source can return for the ids asked: a url for
\* some of the ids, null for some (the render failed), nothing for the rest.
ImageMaps(ids) ==
    { [id \in S |-> IF id \in N THEN Null ELSE "https://img/" \o id] :
        S \in SUBSET Range(ids), N \in SUBSET Range(ids) }

\* The answers to /v1/images/FILE_KEY?ids=...
ImageResponses(ids) ==
    { TransportError, UnparsableBody, ApiError, Body(EmptyObject),
      Body([status |-> 200, images |-> EmptyObject]) }
    \cup { Body([images |-> m]) : m \in ImageMaps(ids) }

-----------------------------------------------------------------------------
(* The steps of getNodeStructure after the walk *)

\* A faulty variant of getImages: no try/catch, a rejection of makeRequest is passed on.
getImages_NoCatch(response) ==
    LET imageData == makeRequest(response)
    IN  IF imageData.state = "resolved"
        THEN [state |-> "resolved",
              value |-> IF "images" \in DOMAIN imageData.value
                        THEN imageData.value.images ELSE EmptyObject]
        ELSE imageData

\* How the promise of getImages settles on the response to its one request:
\* with imageData.images || {}, and with {} from the catch block when
\* makeRequest rejects.
getImages(response) ==
    LET imageData == makeRequest(response)
    IN  IF imageData.state = "resolved"
        THEN [state |-> "resolved",
              value |-> IF "images" \in DOMAIN imageData.value
                        THEN imageData.value.images ELSE EmptyObject]
        ELSE [state |-> "resolved", value |-> EmptyObject]

RECURSIVE collectImageNodes(_, _), collectImageNodesEach(_, _, _)
\* A faulty variant of collectImageNodes: only the first fill is looked at.
collectImageNodes_FirstFill(node, imageNodes) ==
    collectImageNodesEach(ChildrenOf(node), 1,
        IF "fills" \in DOMAIN node /\ Len(node.fills) > 0 /\ node.fills[1].type = "IMAGE"
        THEN Append(imageNodes, Get(node, "id")) ELSE imageNodes)

\* function collectImageNodes(node, imageNodes = []): the ids of the nodes with
\* node.fills.some(fill => fill.type === 'IMAGE'), the node before its children.
collectImageNodes(node, imageNodes) ==
    collectImageNodesEach(ChildrenOf(node), 1,
        IF ImageFills(node) # <<>> THEN Append(imageNodes, Get(node, "id")) ELSE imageNodes)
\* node.children.forEach(child => collectImageNodes(child, imageNodes)), from child k on.
collectImageNodesEach(children, k, imageNodes) ==
    IF k > Len(children) THEN imageNodes
    ELSE collectImageNodesEach(children, k + 1, collectImageNodes(children[k], imageNodes))

\* A faulty variant of ImageRequests: one request per collected id.
ImageRequests_PerNode(ids) ==
    [i \in 1..Len(ids) |-> [endpoint |-> "images", ids |-> <<ids[i]>>]]

\* The requests getNodeStructure makes for the collected ids.
ImageRequests(ids) ==
    IF Len(ids) > 0
    THEN << [endpoint |-> "images", ids |-> ids] >>
    ELSE <<>>

\* A faulty variant of addImageUrls: the children are not visited.
addImageUrls_RootOnly(st, urls) ==
    (IF st.id \in DOMAIN urls /\ Truthy(urls[st.id])
     THEN [imageUrl |-> urls[st.id]] ELSE EmptyObject) @@ st

RECURSIVE addImageUrls(_, _)
addImageUrls(st, urls) ==
    (IF st.id \in DOMAIN urls /\ Truthy(urls[st.id])
     THEN [imageUrl |-> urls[st.id]] ELSE EmptyObject)
      @@ (IF "children" \in DOMAIN st
          THEN [children |-> [i \in 1..Len(st.children) |-> addImageUrls(st.children[i], urls)]]
          ELSE EmptyObject)
      @@ st

\* A faulty variant of countAllChildren: the children's own children are not counted.
countAllChildren_DirectOnly(node) ==
    IF "children" \in DOMAIN node THEN Len(node.children) ELSE 0

RECURSIVE countAllChildren(_), countAllChildrenEach(_, _)
countAllChildren(node) ==
    IF "children" \in DOMAIN node
    THEN Len(node.children) + countAllChildrenEach(node.children, 1)
    ELSE 0
countAllChildrenEach(children, k) ==
    IF k > Len(children) THEN 0
    ELSE countAllChildren(children[k]) + countAllChildrenEach(children, k + 1)

\* The { id, name, componentId } entry of an INSTANCE, none without a componentId.
InstanceEntries(node) ==
    IF node.type = "INSTANCE" /\ Truthy(Get(node, "componentId"))
    THEN << [id |-> node.id, name |-> node.name, componentId |-> node.componentId] >>
    ELSE <<>>

\* The { id, name } entry of a COMPONENT.
ComponentEntries(node) ==
    IF node.type = "COMPONENT" THEN << [id |-> node.id, name |-> node.name] >> ELSE <<>>

RECURSIVE analyzeComponents(_), analyzeComponentsEach(_, _, _)
RECURSIVE analyzeComponentsEach_Overwrite(_, _, _)

\* A faulty variant of analyzeComponentsEach: a child's analysis replaces what was
\* gathered so far, where the code concatenates.
analyzeComponentsEach_Overwrite(children, k, acc) ==
    IF k > Len(children) THEN acc
    ELSE analyzeComponentsEach_Overwrite(children, k + 1, analyzeComponents(children[k]))

analyzeComponents(node) ==
    analyzeComponentsEach(ChildrenOf(node), 1,
        [instances |-> InstanceEntries(node), components |-> ComponentEntries(node)])
analyzeComponentsEach(children, k, acc) ==
    IF k > Len(children) THEN acc
    ELSE LET childAnalysis == analyzeComponents(children[k])
         IN  analyzeComponentsEach(children, k + 1,
                 [instances  |-> acc.instances \o childAnalysis.instances,
                  components |-> acc.components \o childAnalysis.components])

\* 1 when the condition holds, as counts.x++ under an if.
One(cond) == IF cond THEN 1 ELSE 0

RECURSIVE countNodeTypes(_), countNodeTypesEach(_, _, _)
countNodeTypes(node) ==
    countNodeTypesEach(ChildrenOf(node), 1,
        [text       |-> One(node.type = "TEXT"),
         images     |-> One("imageContent" \in DOMAIN node \/ "imageUrl" \in DOMAIN node),
         vectors    |-> One(node.type \in {"VECTOR", "BOOLEAN_OPERATION"}),
         components |-> One(node.type = "COMPONENT"),
         instances  |-> One(node.type = "INSTANCE")])
countNodeTypesEach(children, k, counts) ==
    IF k > Len(children) THEN counts
    ELSE LET childCounts == countNodeTypes(children[k])
         IN  countNodeTypesEach(children, k + 1,
                 [text       |-> counts.text + childCounts.text,
                  images     |-> counts.images + childCounts.images,
                  vectors    |-> counts.vectors + childCounts.vectors,
                  components |-> counts.components + childCounts.components,
                  instances  |-> counts.instances + childCounts.instances])

\* const outputData (extractedAt apart).
outputData(node, st) ==
    LET analysis == analyzeComponents(st)
    IN  [nodeId |-> NODE_ID,
         nodeName |-> Get(node, "name"),
         nodeType |-> Get(node, "type"),
         directChildrenCount |-> Len(ChildrenOf(st)),
         totalDescendants |-> countAllChildren(st),
         structure |-> st,
         componentAnalysis |->
            [instanceCount |-> Len(analysis.instances),
             componentCount |-> Len(analysis.components),
             components |-> analysis.components,
             instances |-> analysis.instances]]

-----------------------------------------------------------------------------
(* getNodeStructure as a state machine *)

Init ==
    /\ pc = "start"
    /\ stalled = FALSE
    /\ requests = <<>>
    /\ responses = <<>>
    /\ rootResult = "none"
    /\ imgResult = "none"
    /\ tree = None
    /\ structure = None
    /\ visited = <<>>
    /\ imageNodeIds = <<>>
    /\ imageUrls = EmptyObject
    /\ report = None
    /\ writes = 0
    /\ typeCounts = None
    /\ errors = 0
    /\ outcome = "pending"
    /\ filePc = "start"
    /\ fileRequests = <<>>
    /\ fileResponses = <<>>
    /\ fileDocument = None
    /\ fileStructure = None
    /\ pageIndex = 0
    /\ fileOutput = None
    /\ fileWrites = 0
    /\ fileErrors = 0
    /\ enhPc = "start"
    /\ enhRequests = <<>>
    /\ enhResponses = <<>>
    /\ enhNodeData = None
    /\ enhTokens = None
    /\ enhComponentSets = None
    /\ enhancedData = None
    /\ enhWrites = 0
    /\ enhErrors = 0
    /\ enhWarnings = 0

\* A faulty variant of Start: the image request is issued together with the
\* root request.
Start_ImagesFirst ==
    /\ pc = "start"
    /\ pc' = "awaitRoot"
    /\ requests' = << [endpoint |-> "nodes", ids |-> <<NODE_ID>>],
                      [endpoint |-> "images", ids |-> <<NODE_ID>>] >>
    /\ UNCHANGED <<stalled, responses, rootResult, imgResult, tree, structure, visited,
                   imageNodeIds, imageUrls, report, writes, typeCounts, errors, outcome>>
    /\ UNCHANGED <<fileVars, enhVars>>

\* getNodeStructure() is called: it runs to its first await, the root request.
Start ==
    /\ pc = "start"
    /\ pc' = "awaitRoot"
    /\ requests' = Append(requests, [endpoint |-> "nodes", ids |-> <<NODE_ID>>])
    /\ UNCHANGED <<stalled, responses, rootResult, imgResult, tree, structure, visited,
                   imageNodeIds, imageUrls, report, writes, typeCounts, errors, outcome>>
    /\ UNCHANGED <<fileVars, enhVars>>

\* The function's outcome once its body has run to the end: the promise resolves.
returned == "resolved"

\* The function's outcome once the catch block has logged the error.
caught == "resolved"

\* From the merge to the end of the try block, on the structure st.
Finish(st) ==
    /\ structure' = st
    /\ report' = outputData(tree', st)
    /\ writes' = writes + 1
    /\ typeCounts' = countNodeTypes(st)
    /\ pc' = "done"
    /\ outcome' = returned

\* catch (error) { console.error(...) }: nothing else is done.
Catch ==
    /\ errors' = errors + 1
    /\ pc' = "done"
    /\ outcome' = caught
    /\ UNCHANGED <<structure, report, writes, typeCounts>>

\* The root request settles on one of the responses and the function runs on to
\* its next await or its end.
RootSettledWith(answers) ==
    /\ pc = "awaitRoot"
    /\ ~stalled
    /\ UNCHANGED stalled
    /\ UNCHANGED <<fileVars, enhVars>>
    /\ \E response \in answers :
         LET nodeData == makeRequest(response)
         IN  /\ responses' = Append(responses, response)
             /\ IF nodeData.state = "rejected"
                THEN /\ rootResult' = "rejected"
                     /\ Catch
                     /\ UNCHANGED <<requests, imgResult, tree, visited, imageNodeIds, imageUrls>>
                ELSE IF "nodes" \notin DOMAIN nodeData.value
                        \/ NODE_ID \notin DOMAIN nodeData.value.nodes
                THEN /\ rootResult' = "notFound"
                     /\ Catch
                     /\ UNCHANGED <<requests, imgResult, tree, visited, imageNodeIds, imageUrls>>
                ELSE LET node == nodeData.value.nodes[NODE_ID].document
                         st   == extractNodeStructure(node, 0)
                         ids  == collectImageNodes(node, <<>>)
                     IN  /\ rootResult' = "fetched"
                         /\ tree' = node
                         /\ visited' = visitOrder(node)
                         /\ imageNodeIds' = ids
                         /\ requests' = requests \o ImageRequests(ids)
                         /\ UNCHANGED <<imageUrls, errors>>
                         /\ IF Len(ids) > 0
                            THEN /\ structure' = st
                                 /\ pc' = "awaitImages"
                                 /\ UNCHANGED <<imgResult, report, writes, typeCounts, outcome>>
                            ELSE /\ Finish(st)
                                 /\ UNCHANGED imgResult

\* A faulty variant of ImagesSettled: the urls are also written onto the nodes
\* of the input tree.
ImagesSettled_IntoInput ==
    /\ pc = "awaitImages"
    /\ ~stalled
    /\ UNCHANGED <<stalled, requests, rootResult, visited, imageNodeIds>>
    /\ UNCHANGED <<fileVars, enhVars>>
    /\ \E response \in ImageResponses(imageNodeIds) :
         LET urls == getImages(response)
         IN  /\ responses' = Append(responses, response)
             /\ imgResult' = makeRequest(response).state
             /\ tree' = addImageUrls(tree, urls.value)
             /\ imageUrls' = urls.value
             /\ Finish(addImageUrls(structure, urls.value))
             /\ UNCHANGED errors

\* The image request settles: getImages returns, the urls are merged and the
\* function runs to its end.
ImagesSettled ==
    /\ pc = "awaitImages"
    /\ ~stalled
    /\ UNCHANGED <<stalled, requests, rootResult, tree, visited, imageNodeIds>>
    /\ UNCHANGED <<fileVars, enhVars>>
    /\ \E response \in ImageResponses(imageNodeIds) :
         LET urls == getImages(response)
         IN  /\ responses' = Append(responses, response)
             /\ imgResult' = makeRequest(response).state
             /\ IF urls.state = "rejected"
                THEN Catch /\ UNCHANGED imageUrls
                ELSE /\ imageUrls' = urls.value
                     /\ Finish(addImageUrls(structure, urls.value))
                     /\ UNCHANGED errors

\* The design source keeps the connection of the request in flight open and
\* never answers: neither 'end' nor 'error' is emitted.
RequestStalls ==
    /\ pc \in {"awaitRoot", "awaitImages"}
    /\ ~stalled
    /\ stalled' = TRUE
    /\ UNCHANGED <<pc, requests, responses, rootResult, imgResult, tree, structure,
                   visited, imageNodeIds, imageUrls, report, writes, typeCounts, errors, outcome>>
    /\ UNCHANGED <<fileVars, enhVars>>

RootSettled == RootSettledWith(RootResponses)

Next == Start \/ RootSettled \/ ImagesSettled \/ RequestStalls

Spec == Init /\ [][Next]_vars

\* The same run, the design source answering with a styled tree.
StyledRootSettled == RootSettledWith(StyledRootResponses)

StyledNext == Start \/ StyledRootSettled \/ ImagesSettled \/ RequestStalls

StyledSpec == Init /\ [][StyledNext]_vars

-----------------------------------------------------------------------------
(* getFileStructure: the file, then one detail request per page *)

FILE_KEY == "FILE_KEY"

\* The k-th page as the file request (depth=1) returns it.
Page(k) == [id |-> "0:" \o Str(k), name |-> "Page " \o Str(k), type |-> "CANVAS"]

\* The document of a file of n pages.
Document(n) ==
    [id |-> "0:0", name |-> "Document", type |-> "DOCUMENT",
     children |-> [k \in 1..n |-> Page(k)]]

\* The answers to /v1/files/FILE_KEY?depth=1: a failure, a body without
\* document, a document without children, a document of 0 to MaxPages pages.
FileResponses ==
    { TransportError, UnparsableBody, ApiError, Body([name |-> "file"]),
      Body([name |-> "file", document |-> [id |-> "0:0", name |-> "Document",
                                           type |-> "DOCUMENT"]]) }
    \cup { Body([name |-> "file", lastModified |-> "2025-01-01", version |-> "7",
                 document |-> Document(n)]) : n \in 0..MaxPages }

\* The page in detail (depth=3): without children, with one, with two.
DetailedPages(page) ==
    { page,
      page @@ [children |-> << MakeNode("VERTICAL_FRAME", page.id \o ".1", <<>>) >>],
      page @@ [children |-> << MakeNode("FRAME", page.id \o ".1",
                                   << MakeNode("TEXT", page.id \o ".1.1", <<>>) >>),
                               MakeNode("IMAGE_RECT", page.id \o ".2", <<>>) >>] }

\* The answers to /v1/files/FILE_KEY/nodes?ids=page.id&depth=3: a failure, a
\* body without nodes, a body whose nodes lack the page, the page in detail.
PageResponses(page) ==
    { TransportError, UnparsableBody, ApiError, Body(EmptyObject), Body([nodes |-> EmptyObject]) }
    \cup { Body([nodes |-> (page.id :> [document |-> d])]) : d \in DetailedPages(page) }

RECURSIVE fileNodeStructure(_, _)
\* extractNodeStructure(node, depth) of get-figma-file-structure: the node's
\* identity and depth, the layout and text properties it has, its children.
fileNodeStructure(node, depth) ==
    [id |-> Get(node, "id"), name |-> Get(node, "name"), type |-> Get(node, "type"),
     depth |-> depth]
      @@ (IF "absoluteBoundingBox" \in DOMAIN node
          THEN [boundingBox |-> node.absoluteBoundingBox] ELSE EmptyObject)
      @@ (IF "fills" \in DOMAIN node /\ Len(node.fills) > 0
          THEN [fills |-> node.fills] ELSE EmptyObject)
      @@ (IF "strokes" \in DOMAIN node /\ Len(node.strokes) > 0
          THEN [strokes |-> node.strokes] ELSE EmptyObject)
      @@ (IF "constraints" \in DOMAIN node
          THEN [constraints |-> node.constraints] ELSE EmptyObject)
      @@ (IF Truthy(Get(node, "layoutMode"))
          THEN [layoutMode |-> node.layoutMode] ELSE EmptyObject)
      @@ (IF Truthy(Get(node, "primaryAxisAlignItems"))
          THEN [primaryAxisAlignItems |-> node.primaryAxisAlignItems] ELSE EmptyObject)
      @@ (IF Truthy(Get(node, "counterAxisAlignItems"))
          THEN [counterAxisAlignItems |-> node.counterAxisAlignItems] ELSE EmptyObject)
      @@ (IF "itemSpacing" \in DOMAIN node
          THEN [itemSpacing |-> node.itemSpacing] ELSE EmptyObject)
      @@ (IF "paddingLeft" \in DOMAIN node
          THEN [padding |-> [side \in {"paddingLeft", "paddingRight", "paddingTop",
                                       "paddingBottom"} \cap DOMAIN node |-> node[side]]]
          ELSE EmptyObject)
      @@ (IF Truthy(Get(node, "characters")) THEN [text |-> node.characters] ELSE EmptyObject)
      @@ (IF "style" \in DOMAIN node THEN [style |-> node.style] ELSE EmptyObject)
      @@ (IF Len(ChildrenOf(node)) > 0
          THEN [children |-> [i \in 1..Len(node.children) |->
                                 fileNodeStructure(node.children[i], depth + 1)]]
          ELSE EmptyObject)

\* The detail request of a page.
PageRequest(page) == [endpoint |-> "nodes", ids |-> <<page.id>>]

\* getFileStructure() is called: it runs to its first await, the file request.
FileStart ==
    /\ filePc = "start"
    /\ filePc' = "awaitFile"
    /\ fileRequests' = << [endpoint |-> "file", ids |-> <<>>] >>
    /\ UNCHANGED <<fileResponses, fileDocument, fileStructure, pageIndex, fileOutput,
                   fileWrites, fileErrors>>
    /\ UNCHANGED <<nodeVars, enhVars>>

\* After the loop: fs.writeFileSync(outputPath, JSON.stringify(fileStructure)).
\* The summary printed after it reads the pages and changes nothing.
FileWrite ==
    /\ fileOutput' = fileStructure'
    /\ fileWrites' = fileWrites + 1
    /\ filePc' = "done"
    /\ UNCHANGED fileErrors

\* The outer catch block: console.error, nothing else.
FileCatch ==
    /\ fileErrors' = fileErrors + 1
    /\ filePc' = "done"
    /\ UNCHANGED <<fileOutput, fileWrites>>

\* The file request settles: the function builds fileStructure and runs to the
\* detail request of the first page, or to its end when there is no page.
FileSettled ==
    /\ filePc = "awaitFile"
    /\ UNCHANGED <<nodeVars, enhVars>>
    /\ \E answer \in FileResponses :
         LET response == makeRequest(answer)
         IN  /\ fileResponses' = Append(fileResponses, answer)
             /\ IF response.state = "rejected" \/ "document" \notin DOMAIN response.value
                THEN /\ FileCatch
                     /\ UNCHANGED <<fileRequests, fileDocument, fileStructure, pageIndex>>
                ELSE LET document == response.value.document
                         pages    == ChildrenOf(document)
                     IN  /\ fileDocument' = document
                         /\ fileStructure' =
                                [fileKey |-> FILE_KEY,
                                 name |-> Get(response.value, "name"),
                                 lastModified |-> Get(response.value, "lastModified"),
                                 version |-> Get(response.value, "version"),
                                 thumbnailUrl |-> Get(response.value, "thumbnailUrl"),
                                 document |-> fileNodeStructure(document, 0),
                                 pages |-> <<>>,
                                 totalPages |-> Len(pages)]
                         /\ pageIndex' = 0
                         /\ IF Len(pages) > 0
                            THEN /\ fileRequests' = Append(fileRequests, PageRequest(pages[1]))
                                 /\ filePc' = "awaitPage"
                                 /\ UNCHANGED <<fileOutput, fileWrites, fileErrors>>
                            ELSE /\ FileWrite
                                 /\ UNCHANGED fileRequests

\* fileStructure.pages after the detail request of the page settled: the
\* page in detail when the answer has it, the basic page with the error when
\* the request was rejected, and nothing more when the answer lacks the page.
pagesAfter(pages, page, index, pageResponse) ==
    IF pageResponse.state = "rejected"
    THEN Append(pages, fileNodeStructure(page, 0)
                         @@ [pageIndex |-> index, error |-> pageResponse.error])
    ELSE IF "nodes" \in DOMAIN pageResponse.value /\ page.id \in DOMAIN pageResponse.value.nodes
         THEN Append(pages, fileNodeStructure(pageResponse.value.nodes[page.id].document, 0)
                              @@ [pageIndex |-> index])
         ELSE pages

\* The detail request of the page in flight settles: the loop goes on to the
\* request of the next page, or the function runs to its end.
PageSettled ==
    /\ filePc = "awaitPage"
    /\ UNCHANGED <<nodeVars, enhVars>>
    /\ UNCHANGED fileDocument
    /\ LET page == fileDocument.children[pageIndex + 1]
       IN  \E answer \in PageResponses(page) :
             /\ fileResponses' = Append(fileResponses, answer)
             /\ fileStructure' =
                    [fileStructure EXCEPT
                        !.pages = pagesAfter(@, page, pageIndex, makeRequest(answer))]
             /\ IF pageIndex + 1 < Len(fileDocument.children)
                THEN /\ pageIndex' = pageIndex + 1
                     /\ fileRequests' =
                            Append(fileRequests, PageRequest(fileDocument.children[pageIndex + 2]))
                     /\ UNCHANGED <<filePc, fileOutput, fileWrites, fileErrors>>
                ELSE /\ FileWrite
                     /\ UNCHANGED <<pageIndex, fileRequests>>

FileNext == FileStart \/ FileSettled \/ PageSettled

FileSpec == Init /\ [][FileNext]_vars

-----------------------------------------------------------------------------
(* getEnhancedDesignData: the node, the design tokens, the component sets *)

\* The local variables of the file: their names are distinct, so that no
\* entry of a category overwrites another.
VariablePool ==
    ("VariableID:1" :> [name |-> "color/primary", resolvedType |-> "COLOR",
                        valuesByMode |-> [m1 |-> "#0055ff"]])
      @@ ("VariableID:2" :> [name |-> "text/size", resolvedType |-> "FLOAT",
                             valuesByMode |-> [m1 |-> 16]])
      @@ ("VariableID:3" :> [name |-> "spacing/md", resolvedType |-> "FLOAT",
                             valuesByMode |-> [m1 |-> 8]])
      @@ ("VariableID:4" :> [name |-> "radius/lg", resolvedType |-> "FLOAT",
                             valuesByMode |-> [m1 |-> 12]])
      @@ ("VariableID:5" :> [name |-> "opacity/half", resolvedType |-> "FLOAT",
                             valuesByMode |-> [m1 |-> 50]])

\* The words of getDesignTokens that the lower-cased name of a variable of the
\* pool includes.
IncludedWords(name) ==
    CASE name = "color/primary" -> {"color"}
      [] name = "text/size"     -> {"text", "size"}
      [] name = "spacing/md"    -> {"spacing"}
      [] name = "radius/lg"     -> {"radius"}
      [] OTHER                  -> {}

\* The variables objects the design source can return: up to two variables of
\* the pool, or a variable without a name.
VariableMaps ==
    { [id \in S |-> VariablePool[id]] : S \in { T \in SUBSET DOMAIN VariablePool : Cardinality(T) <= 2 } }
    \cup { ("VariableID:9" :> [resolvedType |-> "FLOAT", valuesByMode |-> [m1 |-> 1]]) }

\* The answers to /v1/files/FILE_KEY/variables/local.
TokenResponses ==
    { TransportError, UnparsableBody, ApiError, Body(EmptyObject),
      Body([meta |-> EmptyObject]) }
    \cup { Body([meta |-> [variables |-> m]]) : m \in VariableMaps }

\* The category getDesignTokens files a variable of that name under; "" when
\* no branch of the if chain takes it.
categoryOf(name) ==
    LET words == IncludedWords(name)
    IN  IF words \cap {"color", "bg", "text"} # {} THEN "colors"
        ELSE IF words \cap {"spacing", "gap", "margin", "padding"} # {} THEN "spacing"
        ELSE IF words \cap {"font", "text", "size"} # {} THEN "typography"
        ELSE IF words \cap {"radius", "corner"} # {} THEN "borderRadius"
        ELSE IF words \cap {"shadow", "elevation"} # {} THEN "shadows"
        ELSE ""

\* The designTokens object built from the variables.
designTokensOf(variables) ==
    [category \in {"colors", "spacing", "typography", "borderRadius", "shadows"} |->
        LET ids == { id \in DOMAIN variables : categoryOf(variables[id].name) = category }
        IN  [name \in { variables[id].name : id \in ids } |->
                LET id == CHOOSE id \in ids : variables[id].name = name
                IN  [id |-> id, values |-> variables[id].valuesByMode,
                     type |-> variables[id].resolvedType]]]

\* A faulty variant of getDesignTokens: no try/catch, a rejection of makeRequest
\* is passed on.
getDesignTokens_NoCatch(answer) ==
    LET response == makeRequest(answer)
    IN  IF response.state = "rejected" THEN response @@ [warned |-> FALSE]
        ELSE IF "meta" \in DOMAIN response.value /\ "variables" \in DOMAIN response.value.meta
        THEN IF \E id \in DOMAIN response.value.meta.variables :
                    "name" \notin DOMAIN response.value.meta.variables[id]
             THEN [state |-> "rejected", error |-> "TypeError", warned |-> FALSE]
             ELSE [state |-> "resolved", warned |-> FALSE,
                   value |-> designTokensOf(response.value.meta.variables)]
        ELSE [state |-> "resolved", value |-> NullObject, warned |-> FALSE]

\* How the promise of getDesignTokens settles on the response to its one
\* request: with the designTokens object, with null when the answer has no
\* meta.variables, and with null from the catch block (which warns) when
\* makeRequest rejects or a variable has no name.
getDesignTokens(answer) ==
    LET response == makeRequest(answer)
    IN  IF response.state = "rejected"
        THEN [state |-> "resolved", value |-> NullObject, warned |-> TRUE]
        ELSE IF "meta" \in DOMAIN response.value /\ "variables" \in DOMAIN response.value.meta
        THEN IF \E id \in DOMAIN response.value.meta.variables :
                    "name" \notin DOMAIN response.value.meta.variables[id]
             THEN [state |-> "resolved", value |-> NullObject, warned |-> TRUE]
             ELSE [state |-> "resolved", warned |-> FALSE,
                   value |-> designTokensOf(response.value.meta.variables)]
        ELSE [state |-> "resolved", value |-> NullObject, warned |-> FALSE]

\* A component set of the file, with two variants and a child that is none.
ButtonSet(id) ==
    [id |-> id, name |-> "Button", type |-> "COMPONENT_SET",
     children |-> << [id |-> id \o ".1", name |-> "State=Default", type |-> "COMPONENT",
                      variantProperties |-> [State |-> "Default"]],
                     [id |-> id \o ".2", name |-> "State=Hover", type |-> "COMPONENT"],
                     [id |-> id \o ".3", name |-> "Note", type |-> "TEXT"] >>]

\* The documents of the whole file: without component set, with one on a page,
\* with one on each of two pages.
FileDocuments ==
    { Document(2),
      [Document(1) EXCEPT !.children[1] = @ @@ [children |-> << ButtonSet("1:1") >>]],
      [Document(2) EXCEPT !.children[1] = @ @@ [children |-> << ButtonSet("1:1") >>],
                          !.children[2] = @ @@ [children |-> << MakeNode("FRAME", "2:1",
                                                                    << ButtonSet("2:2") >>) >>]] }

\* The answers to /v1/files/FILE_KEY.
WholeFileResponses ==
    { TransportError, UnparsableBody, ApiError, Body([name |-> "file"]) }
    \cup { Body([name |-> "file", document |-> d]) : d \in FileDocuments }

\* componentSets[node.id].variants of a component set: its COMPONENT children.
variantsOf(node) ==
    LET kids == { k \in 1..Len(ChildrenOf(node)) : Get(node.children[k], "type") = "COMPONENT" }
    IN  [id \in { node.children[k].id : k \in kids } |->
            LET variant == node.children[CHOOSE k \in kids : node.children[k].id = id]
            IN  [name |-> variant.name,
                 properties |-> IF "variantProperties" \in DOMAIN variant
                                THEN variant.variantProperties ELSE EmptyObject]]

RECURSIVE findComponentSets(_, _), findComponentSetsEach(_, _, _)
\* findComponentSets(node), componentSets being the object it fills.
findComponentSets(node, componentSets) ==
    findComponentSetsEach(ChildrenOf(node), 1,
        IF Get(node, "type") = "COMPONENT_SET"
        THEN (node.id :> [name |-> node.name, variants |-> variantsOf(node),
                          properties |-> EmptyObject]) @@ componentSets
        ELSE componentSets)
findComponentSetsEach(children, k, componentSets) ==
    IF k > Len(children) THEN componentSets
    ELSE findComponentSetsEach(children, k + 1, findComponentSets(children[k], componentSets))

\* How the promise of getComponentSets settles on the response to its one
\* request: with the component sets of the document, and with {} from the
\* catch block (which warns) when makeRequest rejects or there is no document.
getComponentSets(answer) ==
    LET fileData == makeRequest(answer)
    IN  IF fileData.state = "rejected" \/ "document" \notin DOMAIN fileData.value
        THEN [state |-> "resolved", value |-> EmptyObject, warned |-> TRUE]
        ELSE [state |-> "resolved", warned |-> FALSE,
              value |-> findComponentSets(fileData.value.document, EmptyObject)]

RECURSIVE processNodeForA11y(_, _), processNodeForA11yEach(_, _, _)
\* processNodeForA11y(node), accessibilityData being the object it fills.  No
\* name of a generated node includes 'button', 'cta' or 'link': the
\* interactive elements are the INSTANCE nodes.
processNodeForA11y(node, accessibilityData) ==
    LET image   == Get(node, "type") = "RECTANGLE" /\ "fills" \in DOMAIN node
                      /\ \E k \in 1..Len(node.fills) : node.fills[k].type = "IMAGE"
        heading == Get(node, "type") = "TEXT" /\ "fontSize" \in DOMAIN node
                      /\ node.fontSize >= 18
        a1 == IF image
              THEN [accessibilityData EXCEPT !.altTexts =
                       (node.id :> [suggested |-> "Image: " \o node.name, node |-> node.name,
                                    type |-> "IMAGE"]) @@ @]
              ELSE accessibilityData
        a2 == IF heading
              THEN [a1 EXCEPT !.headingStructure =
                       Append(@, [id |-> node.id,
                                  text |-> IF Truthy(Get(node, "characters"))
                                           THEN node.characters ELSE "",
                                  level |-> IF node.fontSize >= 32 THEN 1
                                            ELSE IF node.fontSize >= 24 THEN 2 ELSE 3,
                                  fontSize |-> node.fontSize])]
              ELSE a1
        a3 == IF Get(node, "type") = "INSTANCE"
              THEN [a2 EXCEPT !.interactiveElements =
                       Append(@, [id |-> Get(node, "id"), name |-> Get(node, "name"),
                                  type |-> node.type, suggestedRole |-> "link"])]
              ELSE a2
    IN  processNodeForA11yEach(ChildrenOf(node), 1, a3)
processNodeForA11yEach(children, k, accessibilityData) ==
    IF k > Len(children) THEN accessibilityData
    ELSE processNodeForA11yEach(children, k + 1,
             processNodeForA11y(children[k], accessibilityData))

extractAccessibilityInfo(node) ==
    processNodeForA11y(node,
        [altTexts |-> EmptyObject, ariaLabels |-> EmptyObject, focusable |-> <<>>,
         headingStructure |-> <<>>, interactiveElements |-> <<>>])

\* The answers to /v1/files/FILE_KEY/nodes?ids=NODE_ID&depth=10.
EnhRootResponses ==
    RootResponsesOver({ ExampleTree, MakeNode("TEXT", NODE_ID, <<>>) })

\* getEnhancedDesignData() is called: it runs to its first await, the request
\* of the node.
EnhStart ==
    /\ enhPc = "start"
    /\ enhPc' = "awaitRoot"
    /\ enhRequests' = << [endpoint |-> "nodes", ids |-> <<NODE_ID>>] >>
    /\ UNCHANGED <<enhResponses, enhNodeData, enhTokens, enhComponentSets, enhancedData,
                   enhWrites, enhErrors, enhWarnings>>
    /\ UNCHANGED <<nodeVars, fileVars>>

\* catch (error) { console.error(...) }: nothing else is done.
EnhCatch ==
    /\ enhErrors' = enhErrors + 1
    /\ enhPc' = "done"
    /\ UNCHANGED <<enhancedData, enhWrites>>

\* The request of the node settles: a rejection goes to the catch block; a
\* resolved answer is kept, unread, and getDesignTokens makes its request.
EnhRootSettled ==
    /\ enhPc = "awaitRoot"
    /\ UNCHANGED <<nodeVars, fileVars>>
    /\ UNCHANGED <<enhTokens, enhComponentSets, enhWarnings>>
    /\ \E answer \in EnhRootResponses :
         LET nodeData == makeRequest(answer)
         IN  /\ enhResponses' = Append(enhResponses, answer)
             /\ IF nodeData.state = "rejected"
                THEN EnhCatch /\ UNCHANGED <<enhRequests, enhNodeData>>
                ELSE /\ enhNodeData' = nodeData.value
                     /\ enhRequests' = Append(enhRequests, [endpoint |-> "variables", ids |-> <<>>])
                     /\ enhPc' = "awaitTokens"
                     /\ UNCHANGED <<enhancedData, enhWrites, enhErrors>>

\* The request of getDesignTokens settles: variables is set (to null on a
\* failure) and getComponentSets makes its request.
TokensSettled ==
    /\ enhPc = "awaitTokens"
    /\ UNCHANGED <<nodeVars, fileVars>>
    /\ UNCHANGED <<enhNodeData, enhComponentSets>>
    /\ \E answer \in TokenResponses :
         LET variables == getDesignTokens(answer)
         IN  /\ enhResponses' = Append(enhResponses, answer)
             /\ enhWarnings' = IF variables.warned THEN enhWarnings + 1 ELSE enhWarnings
             /\ IF variables.state = "rejected"
                THEN EnhCatch /\ UNCHANGED <<enhRequests, enhTokens>>
                ELSE /\ enhTokens' = variables.value
                     /\ enhRequests' = Append(enhRequests, [endpoint |-> "file", ids |-> <<>>])
                     /\ enhPc' = "awaitFile"
                     /\ UNCHANGED <<enhancedData, enhWrites, enhErrors>>

\* The request of getComponentSets settles: componentSets is set (to {} on a
\* failure); getResponsiveData and getInteractionData make no request, and the
\* function runs to its end: nodeData.nodes[NODE_ID].document is read for the
\* first time, which throws when the answer lacks the node, and the output is
\* written.  The responsive, interaction and missingDataFixes parts of the
\* output are constants and are left out.
ComponentSetsSettled ==
    /\ enhPc = "awaitFile"
    /\ UNCHANGED <<nodeVars, fileVars>>
    /\ UNCHANGED <<enhRequests, enhNodeData, enhTokens>>
    /\ \E answer \in WholeFileResponses :
         LET componentSets == getComponentSets(answer)
         IN  /\ enhResponses' = Append(enhResponses, answer)
             /\ enhComponentSets' = componentSets.value
             /\ enhWarnings' = IF componentSets.warned THEN enhWarnings + 1 ELSE enhWarnings
             /\ IF "nodes" \notin DOMAIN enhNodeData \/ NODE_ID \notin DOMAIN enhNodeData.nodes
                THEN EnhCatch
                ELSE /\ enhancedData' =
                            [nodeId |-> NODE_ID,
                             structure |-> enhNodeData.nodes[NODE_ID].document,
                             designTokens |-> enhTokens,
                             componentVariants |-> componentSets.value,
                             accessibility |->
                                 extractAccessibilityInfo(enhNodeData.nodes[NODE_ID].document)]
                     /\ enhWrites' = enhWrites + 1
                     /\ enhPc' = "done"
                     /\ UNCHANGED enhErrors

EnhNext == EnhStart \/ EnhRootSettled \/ TokensSettled \/ ComponentSetsSettled

EnhSpec == Init /\ [][EnhNext]_vars

-----------------------------------------------------------------------------
(* Vocabulary of the properties *)

RECURSIVE Flat(_), FlatEach(_, _)
\* The nodes of a tree (input or annotated) in pre-order.
Flat(node) == <<node>> \o FlatEach(ChildrenOf(node), 1)
FlatEach(children, k) ==
    IF k > Len(children) THEN <<>>
    ELSE Flat(children[k]) \o FlatEach(children, k + 1)

\* A node with the two required properties.
WellFormed(node) == "id" \in DOMAIN node /\ "type" \in DOMAIN node

AllWellFormed(t) == \A i \in 1..Len(Flat(t)) : WellFormed(Flat(t)[i])

\* The properties of an input node from which a tailwind definition is derived.
StyleProperties == {"absoluteBoundingBox", "layoutMode", "fontSize"}

Walked == structure # None
Written == report # None
RootFailed == rootResult \in {"rejected", "notFound"}

-----------------------------------------------------------------------------
(* C1 *)

\* C1: every node of the annotated tree carries a non-empty token string, and
\* a node none of whose style attributes matched carries exactly the fallback
\* token of its type: text-base for TEXT, inline-block for VECTOR and
\* BOOLEAN_OPERATION, block for every other type.
C1_EveryNodeHasTokens ==
    Walked =>
        \A i \in 1..Len(Flat(structure)) :
            LET a == Flat(structure)[i]
                n == Flat(tree)[i]
            IN  /\ a.tailwindClasses # ""
                /\ (DOMAIN n \cap StyleProperties = {}) =>
                      a.tailwindClasses =
                        (IF a.type = "TEXT" THEN "text-base"
                         ELSE IF a.type \in {"VECTOR", "BOOLEAN_OPERATION"} THEN "inline-block"
                         ELSE "block")

\* A walked tree with a VECTOR on its fallback token next to a node whose
\* tokens are derived from its bounding box.
C1_Witness ==
    /\ Walked
    /\ \E i, j \in 1..Len(Flat(structure)) :
          /\ Flat(structure)[i].type = "VECTOR"
          /\ Flat(structure)[i].tailwindClasses = "inline-block"
          /\ Flat(structure)[j].tailwindClasses = "w-[16px] h-[8px]"

-----------------------------------------------------------------------------
(* C2 *)

\* C2: for a tree of N well-formed nodes the walk produces exactly N annotated
\* nodes, the i-th (in pre-order) with the id, name and type of the i-th input
\* node: none is dropped, none duplicated.
C2_WalkKeepsEveryNode ==
    (Walked /\ AllWellFormed(tree)) =>
        /\ Len(Flat(structure)) = Len(Flat(tree))
        /\ \A i \in 1..Len(Flat(tree)) :
              /\ Flat(structure)[i].id = Flat(tree)[i].id
              /\ Flat(structure)[i].name = Flat(tree)[i].name
              /\ Flat(structure)[i].type = Flat(tree)[i].type

\* A well-formed tree of three levels, walked.
C2_Witness ==
    /\ Walked
    /\ AllWellFormed(tree)
    /\ Len(Flat(structure)) = 5
    /\ \E i \in 1..5 : Flat(structure)[i].depth = 2

-----------------------------------------------------------------------------
(* C3 *)

\* C3: a malformed node (no id, or no type) below a well-formed root is skipped
\* by the walk: it does not appear in the annotated output, which has one node
\* per well-formed input node (N-1 for one malformed node among N).
C3_MalformedNodeSkipped ==
    (Walked /\ WellFormed(tree)) =>
        /\ \A i \in 1..Len(Flat(structure)) :
              /\ Flat(structure)[i].id # Undefined
              /\ Flat(structure)[i].type # Undefined
        /\ Len(Flat(structure)) =
              Cardinality({ i \in 1..Len(Flat(tree)) : WellFormed(Flat(tree)[i]) })

-----------------------------------------------------------------------------
(* C4 *)

\* C4: in the output document directChildrenCount is the number of immediate
\* children of the root and totalDescendants the number of nodes other than
\* the root (4 for the root with children [A, B], A with 2 children);
\* childrenCount, on a node that has it, is the number of its immediate
\* children.
C4_Counts ==
    Written =>
        /\ report.directChildrenCount = Len(ChildrenOf(tree))
        /\ report.totalDescendants = Len(Flat(tree)) - 1
        /\ (tree = ExampleTree) => report.totalDescendants = 4
        /\ \A i \in 1..Len(Flat(report.structure)) :
              LET a == Flat(report.structure)[i]
              IN  /\ "childrenCount" \in DOMAIN a =>
                        a.childrenCount = Len(ChildrenOf(Flat(tree)[i]))
                  /\ "childrenCount" \notin DOMAIN a => ChildrenOf(Flat(tree)[i]) = <<>>

\* The report of the root with children [A, B], A with 2 children.
C4_Witness ==
    /\ Written
    /\ tree = ExampleTree
    /\ report.directChildrenCount = 2
    /\ report.totalDescendants = 4
    /\ report.structure.children[1].childrenCount = 2

-----------------------------------------------------------------------------
(* C5 *)

\* The input nodes of a type, in pre-order.
NodesOfType(t, type) == SelectSeq(Flat(t), LAMBDA n : Get(n, "type") = type)

\* The { id, name, componentId } entries of a sequence of input nodes.
AsInstances(nodes) ==
    [i \in 1..Len(nodes) |->
        [id |-> Get(nodes[i], "id"), name |-> Get(nodes[i], "name"),
         componentId |-> Get(nodes[i], "componentId")]]

\* The { id, name } entries of a sequence of input nodes.
AsComponents(nodes) ==
    [i \in 1..Len(nodes) |-> [id |-> Get(nodes[i], "id"), name |-> Get(nodes[i], "name")]]

\* The ids of the COMPONENT nodes of the tree.
ComponentIds(t) ==
    { Get(NodesOfType(t, "COMPONENT")[i], "id") : i \in 1..Len(NodesOfType(t, "COMPONENT")) }

\* C5 as stated: componentAnalysis.instances has one entry for every INSTANCE
\* node of the tree and components one for every COMPONENT node, in pre-order;
\* instanceCount and componentCount are the numbers of INSTANCE and COMPONENT
\* nodes, the tallies of countNodeTypes.
C5_EveryInstanceListed ==
    Written =>
        /\ report.componentAnalysis.instances = AsInstances(NodesOfType(tree, "INSTANCE"))
        /\ report.componentAnalysis.components = AsComponents(NodesOfType(tree, "COMPONENT"))
        /\ report.componentAnalysis.instanceCount = Len(NodesOfType(tree, "INSTANCE"))
        /\ report.componentAnalysis.componentCount = Len(NodesOfType(tree, "COMPONENT"))
        /\ report.componentAnalysis.instanceCount = typeCounts.instances
        /\ report.componentAnalysis.componentCount = typeCounts.components

\* C5 as amended: instances has one entry, in pre-order, for every INSTANCE
\* node that has a componentId (an INSTANCE without one is left out, whether or
\* not the componentId names a COMPONENT of the tree), components one for every
\* COMPONENT node; instanceCount and componentCount are the lengths of the two
\* lists; componentCount is the COMPONENT tally of countNodeTypes and
\* instanceCount is at most its INSTANCE tally, which counts every INSTANCE.
C5_InstancesWithComponentListed ==
    Written =>
        LET linked == SelectSeq(NodesOfType(tree, "INSTANCE"),
                                LAMBDA n : "componentId" \in DOMAIN n)
        IN  /\ report.componentAnalysis.instances = AsInstances(linked)
            /\ report.componentAnalysis.components = AsComponents(NodesOfType(tree, "COMPONENT"))
            /\ report.componentAnalysis.instanceCount = Len(linked)
            /\ report.componentAnalysis.componentCount = Len(NodesOfType(tree, "COMPONENT"))
            /\ report.componentAnalysis.componentCount = typeCounts.components
            /\ typeCounts.instances = Len(NodesOfType(tree, "INSTANCE"))
            /\ report.componentAnalysis.instanceCount <= typeCounts.instances

\* A report listing two INSTANCE nodes whose componentId names no COMPONENT of
\* the tree, below a root that is neither.
C5_Witness ==
    /\ Written
    /\ report.componentAnalysis.instanceCount = 2
    /\ report.componentAnalysis.componentCount = 0
    /\ \A i \in 1..2 :
          report.componentAnalysis.instances[i].componentId \notin ComponentIds(tree)

-----------------------------------------------------------------------------
(* C6 *)

\* The ids of the input nodes with a fill of kind IMAGE, in pre-order.
ImageIdsOf(t) ==
    LET filled == SelectSeq(Flat(t), LAMBDA n :
                      "fills" \in DOMAIN n
                      /\ \E k \in 1..Len(n.fills) : n.fills[k].type = "IMAGE")
    IN  [i \in 1..Len(filled) |-> Get(filled[i], "id")]

\* The image requests made so far.
ImageRequestsMade == SelectSeq(requests, LAMBDA r : r.endpoint = "images")

\* C6: a run makes at most one image request, which carries all the collected
\* node ids; none is made per node, and none when no id was collected.
C6_OneBatchedImageRequest ==
    /\ Len(ImageRequestsMade) <= 1
    /\ Len(ImageRequestsMade) = 1 =>
          /\ ImageRequestsMade[1].ids = imageNodeIds
          /\ ImageRequestsMade[1].ids = ImageIdsOf(tree)
    /\ (rootResult = "fetched" /\ ImageIdsOf(tree) = <<>>) => Len(ImageRequestsMade) = 0
    /\ rootResult # "fetched" => Len(ImageRequestsMade) = 0

\* A finished run whose one image request carried the ids of two nodes.
C6_Witness ==
    /\ pc = "done"
    /\ Len(ImageRequestsMade) = 1
    /\ Len(ImageRequestsMade[1].ids) = 2

-----------------------------------------------------------------------------
(* C7 *)

\* Whether some node of an annotated tree has an imageUrl.
HasImageUrl(st) == \E i \in 1..Len(Flat(st)) : "imageUrl" \in DOMAIN Flat(st)[i]

\* C7: when the image request fails (transport error, API error, unparsable
\* body) the resolver returns an empty mapping and the run completes: the
\* report is written, no node has an imageUrl, and tree, counts and component
\* analysis are those of the walk alone, as they are in a run whose image
\* request succeeded with an empty mapping.
C7_ImageFailureIsolated ==
    (pc = "done" /\ (imgResult = "rejected"
                     \/ (imgResult = "resolved" /\ imageUrls = EmptyObject))) =>
        /\ imageUrls = EmptyObject
        /\ writes = 1
        /\ errors = 0
        /\ report = outputData(tree, extractNodeStructure(tree, 0))
        /\ ~HasImageUrl(report.structure)
        /\ typeCounts = countNodeTypes(extractNodeStructure(tree, 0))

\* A finished run whose image request was rejected, with its report.
C7_Witness ==
    /\ pc = "done"
    /\ imgResult = "rejected"
    /\ Written
    /\ Len(imageNodeIds) = 2

-----------------------------------------------------------------------------
(* C8 *)

\* C8: when fetching the root subtree fails (the request is rejected, or the
\* response does not hold the node) there is no tree and no report, and the
\* caller of the extraction sees an error outcome, not a normal completion.
C8_RootFailureSurfaced ==
    (pc = "done" /\ RootFailed) =>
        /\ structure = None
        /\ report = None
        /\ writes = 0
        /\ outcome = "rejected"

-----------------------------------------------------------------------------
(* C9 *)

\* C9: once the root subtree is fetched the pipeline never waits forever on the
\* image call: it has completed, or it can take a step, also when the image
\* request never delivers a response.
C9_NeverWaitsForever ==
    rootResult = "fetched" => (pc = "done" \/ ENABLED Next)

-----------------------------------------------------------------------------
(* C10 *)

RECURSIVE WithoutImageUrl(_)
\* An annotated tree with the imageUrl of every node removed.
WithoutImageUrl(st) ==
    [f \in DOMAIN st \ {"imageUrl"} |->
        IF f = "children"
        THEN [i \in 1..Len(st.children) |-> WithoutImageUrl(st.children[i])]
        ELSE st[f]]

\* C10: after the merge a node has imageUrl = u exactly when the resolved
\* mapping maps its id to the url u; a node whose id is absent from the mapping
\* (or mapped to null) has no imageUrl; no other field of any node is changed.
C10_MergeByIdOnly ==
    Written =>
        /\ \A i \in 1..Len(Flat(report.structure)) :
              LET a == Flat(report.structure)[i]
                  mapped == a.id \in DOMAIN imageUrls /\ imageUrls[a.id] # Null
              IN  /\ "imageUrl" \in DOMAIN a <=> mapped
                  /\ mapped => a.imageUrl = imageUrls[a.id]
        /\ WithoutImageUrl(report.structure) = extractNodeStructure(tree, 0)

\* A merged tree in which a child has the url of the mapping and another node
\* with an IMAGE fill, absent from the mapping, has none.
C10_Witness ==
    /\ pc = "done"
    /\ Written
    /\ Len(imageNodeIds) = 2
    /\ imageNodeIds[2] \in DOMAIN imageUrls
    /\ imageNodeIds[1] \notin DOMAIN imageUrls
    /\ \E i \in 2..Len(Flat(report.structure)) :
          /\ Flat(report.structure)[i].id = imageNodeIds[2]
          /\ "imageUrl" \in DOMAIN Flat(report.structure)[i]
          /\ Flat(report.structure)[i].imageUrl = "https://img/" \o imageNodeIds[2]

-----------------------------------------------------------------------------
(* C11 *)

\* Whether an input node has a fill of kind IMAGE.
HasImageFill(n) ==
    "fills" \in DOMAIN n /\ \E k \in 1..Len(n.fills) : n.fills[k].type = "IMAGE"

\* C11: the ids handed to the image resolver are exactly the ids of the nodes
\* of the fetched tree that have a fill of kind IMAGE: each such node once, in
\* pre-order, and no node without an IMAGE fill.
C11_ExactlyTheImageNodes ==
    rootResult = "fetched" =>
        /\ imageNodeIds = ImageIdsOf(tree)
        /\ \A i, j \in 1..Len(imageNodeIds) : i # j => imageNodeIds[i] # imageNodeIds[j]
        /\ \A i \in 1..Len(Flat(tree)) :
              HasImageFill(Flat(tree)[i]) <=> Flat(tree)[i].id \in Range(imageNodeIds)
        /\ Len(imageNodeIds) > 0 =>
              /\ Len(ImageRequestsMade) = 1
              /\ ImageRequestsMade[1].ids = imageNodeIds

\* A fetched tree whose root has an IMAGE fill behind a SOLID one and is
\* collected, with a child that has an IMAGE fill, collected after it, and a
\* child with a SOLID fill only, not collected.
C11_Witness ==
    /\ rootResult = "fetched"
    /\ Len(imageNodeIds) = 2
    /\ imageNodeIds[1] = tree.id
    /\ tree.fills[1].type = "SOLID"
    /\ \E i \in 1..Len(ChildrenOf(tree)) :
          /\ "fills" \in DOMAIN tree.children[i]
          /\ Len(tree.children[i].fills) > 0
          /\ ~HasImageFill(tree.children[i])
          /\ tree.children[i].id \notin Range(imageNodeIds)

-----------------------------------------------------------------------------
(* C12 and C13 *)

\* A fetched tree that is a single FRAME whose style attributes are props.
SingleFrame(props) ==
    /\ Walked
    /\ tree.type = "FRAME"
    /\ DOMAIN tree = {"id", "name", "type"} \cup props

\* A paint that paints.find selects when it is alone: SOLID, not hidden, with a
\* colour.
Selected(paint) ==
    /\ paint.type = "SOLID"
    /\ ~("visible" \in DOMAIN paint /\ paint.visible = FALSE)
    /\ "color" \in DOMAIN paint

\* The fetched tree is a single FRAME with one selected fill and nothing else.
OneFill == SingleFrame({"fills"}) /\ Len(tree.fills) = 1 /\ Selected(tree.fills[1])

\* The fetched tree is a single FRAME with one selected stroke of weight 1 and
\* nothing else.
OneStroke ==
    /\ SingleFrame({"strokes", "strokeWeight"})
    /\ tree.strokeWeight = 1
    /\ Len(tree.strokes) = 1
    /\ Selected(tree.strokes[1])

\* The integer nearest to 255 * c, for a channel c in thousandths (a half is
\* rounded up).
Nearest255(c) == CHOOSE n \in 0..255 : 1000 * n - 500 <= 255 * c /\ 255 * c < 1000 * n + 500

\* "R G B", the rounded channels of a colour.
Triple(color) ==
    Str(Nearest255(color.r)) \o " " \o Str(Nearest255(color.g)) \o " "
        \o Str(Nearest255(color.b))

\* A paint with a stated opacity below 1, 0 included.
Translucent(paint) == "opacity" \in DOMAIN paint /\ paint.opacity < 1000

\* A paint of alpha 1: the opacity is 1 or is left out.
Opaque(paint) == "opacity" \in DOMAIN paint => paint.opacity = 1000

\* C12: for every colour and every alpha in [0,1), alpha = 0 included, the
\* colour token of a SOLID fill or stroke is the arbitrary-value token with the
\* rounded rgb and the alpha; no named-colour token is produced.
C12_TranslucentIsArbitrary ==
    /\ (OneFill /\ Translucent(tree.fills[1])) =>
          structure.tailwindClasses =
              "block bg-[rgb(" \o Triple(tree.fills[1].color) \o "/"
                  \o AlphaStr(tree.fills[1].opacity) \o ")]"
    /\ (OneStroke /\ Translucent(tree.strokes[1])) =>
          structure.tailwindClasses =
              "block border border-[rgb(" \o Triple(tree.strokes[1].color) \o "/"
                  \o AlphaStr(tree.strokes[1].opacity) \o ")]"

\* C13: for alpha = 1 the colour token of a SOLID fill (stroke) is the name the
\* table of common (border) colours gives the rounded triple when the triple is
\* a key of the table, and otherwise the arbitrary-value token with that same
\* triple; a triple one off a key in a single channel gets the arbitrary-value
\* token, not the name of the key.
C13_OpaqueNamedIffKey ==
    /\ (OneFill /\ Opaque(tree.fills[1])) =>
          LET rgb == Triple(tree.fills[1].color)
          IN  /\ structure.tailwindClasses =
                    "block " \o (IF rgb \in DOMAIN commonColors THEN commonColors[rgb]
                                 ELSE "bg-[rgb(" \o rgb \o ")]")
              /\ rgb = "255 255 255" => structure.tailwindClasses = "block bg-white"
              /\ rgb = "254 255 255" =>
                    structure.tailwindClasses = "block bg-[rgb(254 255 255)]"
              /\ rgb = "240 68 68" => structure.tailwindClasses = "block bg-[rgb(240 68 68)]"
    /\ (OneStroke /\ Opaque(tree.strokes[1])) =>
          LET rgb == Triple(tree.strokes[1].color)
          IN  /\ structure.tailwindClasses =
                    "block border "
                      \o (IF rgb \in DOMAIN commonBorderColors THEN commonBorderColors[rgb]
                          ELSE "border-[rgb(" \o rgb \o ")]")
              /\ rgb = "0 0 0" => structure.tailwindClasses = "block border border-black"
              /\ rgb = "0 1 0" =>
                    structure.tailwindClasses = "block border border-[rgb(0 1 0)]"

\* An opaque fill one off white in one channel has been walked.
C13_Witness ==
    /\ OneFill
    /\ Opaque(tree.fills[1])
    /\ Triple(tree.fills[1].color) = "254 255 255"
    /\ "opacity" \in DOMAIN tree.fills[1]
    /\ pc = "done"

-----------------------------------------------------------------------------
(* C14 *)

\* The fetched tree is a single horizontal FRAME with an item spacing only.
OneGap == SingleFrame({"layoutMode", "itemSpacing"}) /\ tree.layoutMode = "HORIZONTAL"

\* The fetched tree is a single FRAME with all four padding sides only.
FourSides == SingleFrame({"paddingTop", "paddingRight", "paddingBottom", "paddingLeft"})

\* The fetched tree is a single FRAME with the same padding on all four sides.
OnePadding ==
    /\ FourSides
    /\ tree.paddingTop = tree.paddingRight
    /\ tree.paddingRight = tree.paddingBottom
    /\ tree.paddingBottom = tree.paddingLeft

\* The fetched tree is a single FRAME with a cornerRadius only.
OneRadius == SingleFrame({"cornerRadius"})

\* The fetched tree is a single FRAME with one opaque black stroke and a stroke
\* weight.
OneWeight ==
    /\ SingleFrame({"strokes", "strokeWeight"})
    /\ tree.strokes = <<[type |-> "SOLID", color |-> Black]>>

\* The token of a value v on a scale: the table's token for a key, and
\* otherwise the arbitrary-value token with the raw value and px.
Snapped(prefix, table, sep, v) ==
    IF v \in DOMAIN table THEN table[v] ELSE prefix \o sep \o "[" \o Str(v) \o "px]"

\* The table of the padding tokens p-*.
PaddingTokens == [v \in DOMAIN spacingMap |-> "p-" \o spacingMap[v]]

-----------------------------------------------------------------------------
(* C15 *)

\* The spacing key set of spec section 4.2.
SpacingKeys == {0, 1, 2, 4, 6, 8, 10, 12, 16, 20, 24, 28, 32, 36, 40, 44, 48, 56, 64}

\* C15: item spacing and padding are snapped against the same key set
\* SpacingKeys: for both, a value gets a named scale token exactly when it is
\* in the set and the arbitrary-value token otherwise.
C15_SameSpacingKeys ==
    /\ OneGap =>
          (tree.itemSpacing \in SpacingKeys
             <=> structure.tailwindClasses #
                   "flex flex-row gap-[" \o Str(tree.itemSpacing) \o "px]")
    /\ OnePadding =>
          (tree.paddingTop \in SpacingKeys
             <=> structure.tailwindClasses # "block p-[" \o Str(tree.paddingTop) \o "px]")

-----------------------------------------------------------------------------
(* C16 *)

\* The token of one padding side of length v.
SideToken(side, v) ==
    IF v \in DOMAIN spacingMap THEN side \o "-" \o spacingMap[v]
    ELSE side \o "-[" \o Str(v) \o "px]"

\* C16: a node with four padding sides gets the single token p-* exactly when
\* the four sides are equal; otherwise it gets the four tokens pt-*, pr-*,
\* pb-*, pl-* in this order, each the token of its own side alone: a side on
\* the scale gets the scale token, a side off the scale the arbitrary-value
\* token, whatever the other three are.
C16_PaddingCollapse ==
    FourSides =>
        /\ OnePadding => structure.tailwindClasses = "block " \o SideToken("p", tree.paddingTop)
        /\ ~OnePadding =>
              structure.tailwindClasses =
                  "block " \o SideToken("pt", tree.paddingTop)
                    \o " " \o SideToken("pr", tree.paddingRight)
                    \o " " \o SideToken("pb", tree.paddingBottom)
                    \o " " \o SideToken("pl", tree.paddingLeft)
        /\ (tree.paddingTop = 8 /\ tree.paddingRight = 7 /\ tree.paddingBottom = 8
              /\ tree.paddingLeft = 7) =>
              structure.tailwindClasses = "block pt-2 pr-[7px] pb-2 pl-[7px]"
        /\ (tree.paddingTop = 16 /\ tree.paddingRight = 16 /\ tree.paddingBottom = 16
              /\ tree.paddingLeft = 16) =>
              structure.tailwindClasses = "block p-4"

\* A node whose sides are equal in pairs only, two on the scale and two off
\* it, has been walked.
C16_Witness ==
    /\ FourSides
    /\ tree.paddingTop = 8 /\ tree.paddingBottom = 8
    /\ tree.paddingRight = 7 /\ tree.paddingLeft = 7
    /\ pc = "done"

-----------------------------------------------------------------------------
(* C18 *)

\* C18: the tree of spec section 9 (a vertical FRAME with padding 16 on all
\* sides and a white SOLID fill, a TEXT child "Hi" of font size 24 and a
\* RECTANGLE child with an IMAGE fill): the root gets the vertical-flex token,
\* p-4 and bg-white, the TEXT node gets text-[24px], the id of the RECTANGLE
\* is the one id collected, and when the resolver returns a url for it the
\* RECTANGLE of the report carries that url as imageUrl.
C18_EndToEnd ==
    (Walked /\ tree = EndToEndTree) =>
        /\ structure.tailwindClasses = "flex flex-col p-4 bg-white"
        /\ structure.children[1].tailwindClasses = "text-[24px]"
        /\ structure.children[1].text = "Hi"
        /\ imageNodeIds = << NODE_ID \o ".2" >>
        /\ structure.children[2].id = NODE_ID \o ".2"
        /\ "imageContent" \in DOMAIN structure.children[2]
        /\ (Written /\ NODE_ID \o ".2" \in DOMAIN imageUrls
               /\ imageUrls[NODE_ID \o ".2"] # Null) =>
              /\ report.structure.children[2].imageUrl = imageUrls[NODE_ID \o ".2"]
              /\ report.structure.tailwindClasses = "flex flex-col p-4 bg-white"
              /\ "imageUrl" \notin DOMAIN report.structure.children[1]
              /\ "imageUrl" \notin DOMAIN report.structure

\* The report of the tree of section 9 is written, the resolver having returned
\* a url for the RECTANGLE.
C18_Witness ==
    /\ Written
    /\ tree = EndToEndTree
    /\ responses[2] = Body([images |-> (NODE_ID \o ".2" :> "https://img/" \o NODE_ID \o ".2")])
    /\ report.structure.children[2].imageUrl = "https://img/" \o NODE_ID \o ".2"

-----------------------------------------------------------------------------
(* C19 *)

\* No node of a tree carries what the walk and the merge write.
Unannotated(t) ==
    \A i \in 1..Len(Flat(t)) :
        DOMAIN Flat(t)[i] \cap {"imageUrl", "tailwindClasses", "depth", "childrenCount"} = {}

\* C19: the input tree is never mutated.  When the root request has settled
\* and the walk and the collection have run, the tree is a document as the
\* design source sent it, without any of the fields the walk and the merge
\* write; and no later step (the url merge, the aggregation) changes it.
C19_InputNeverMutated ==
    [][ /\ rootResult' = "fetched" => (tree' \in StyledTrees /\ Unannotated(tree'))
        /\ rootResult = "fetched" => tree' = tree ]_vars

\* The report is written with an imageUrl on a node of the annotated structure
\* and none on the input tree.
C19_Witness ==
    /\ Written
    /\ HasImageUrl(report.structure)
    /\ Unannotated(tree)
    /\ Len(Flat(tree)) > 1

-----------------------------------------------------------------------------
(* C20 *)

\* A response that is a failure of the request: a transport error, a body that
\* does not parse, or a parsed body with a status other than 200.
Failed(response) ==
    \/ response.event = "error"
    \/ ~response.parses
    \/ "status" \in DOMAIN response.json /\ response.json.status # 200

\* A successful response to the root request that has no document for the node.
NoNode(response) ==
    /\ ~Failed(response)
    /\ "nodes" \notin DOMAIN response.json \/ NODE_ID \notin DOMAIN response.json.nodes

\* A successful response to the image request that has no images.
NoImages(response) ==
    /\ ~Failed(response)
    /\ "images" \notin DOMAIN response.json \/ response.json.images = EmptyObject

\* C20: makeRequest settles a failed request (a status other than 200, an
\* unparsable body, a transport error) by rejecting and a successful one by
\* resolving, so what getNodeStructure observes of the root request and what
\* getImages observes of the image request differs between a failure
\* (rejected) and a success without the node (resolved, "not found") or
\* without images (resolved).
C20_FailureIsNotNoData ==
    /\ Len(responses) >= 1 =>
          /\ Failed(responses[1]) <=> rootResult = "rejected"
          /\ NoNode(responses[1]) <=> rootResult = "notFound"
    /\ Len(responses) >= 2 =>
          /\ Failed(responses[2]) <=> imgResult = "rejected"
          /\ NoImages(responses[2]) => imgResult = "resolved"

\* The image request of a run got the API error with status 404.
C20_Witness ==
    /\ Len(responses) = 2
    /\ responses[2] = ApiError
    /\ imgResult = "rejected"
    /\ pc = "done"

-----------------------------------------------------------------------------
(* C21 *)

\* The categories of token in the order of the claim; lineHeight,
\* letterSpacing and textColor, which the claim does not list, stand where the
\* code pushes them.
TokenOrder ==
    << "display", "flexDirection", "primaryAlignment", "counterAlignment", "gap",
       "width", "height", "padding", "backgroundColor", "borderWidth", "borderColor",
       "borderRadius", "fontSize", "fontFamily", "fontWeight", "lineHeight",
       "letterSpacing", "textAlign", "textColor", "opacity", "shadow" >>

\* The definitions of a tailwind object that are present, from the k-th
\* category of TokenOrder on.
RECURSIVE TokensInOrder(_, _)
TokensInOrder(tailwind, k) ==
    IF k > Len(TokenOrder) THEN <<>>
    ELSE (IF TokenOrder[k] \in DOMAIN tailwind THEN <<tailwind[TokenOrder[k]]>> ELSE <<>>)
         \o TokensInOrder(tailwind, k + 1)

\* C21: the token string of every node is made of the tokens of the categories
\* that are present, one entry per category, in the fixed order display or
\* layout mode, primary alignment, counter alignment, item spacing, width,
\* height, padding, background colour, border width, border colour, border
\* radius, font size, font family, font weight, text alignment, opacity, drop
\* shadow; display and layout mode never appear together.
C21_FixedTokenOrder ==
    Walked =>
        \A i \in 1..Len(Flat(tree)) :
            LET tailwind == tailwindOf(Flat(tree)[i])
            IN  /\ ~({"display", "flexDirection"} \subseteq DOMAIN tailwind)
                /\ DOMAIN tailwind \subseteq Range(TokenOrder)
                /\ DOMAIN tailwind # {} =>
                      Flat(structure)[i].tailwindClasses = Join(TokensInOrder(tailwind, 1))

\* A node with an attribute of every group has been walked; its string starts
\* with the layout mode and ends with the drop shadow.
C21_Witness ==
    /\ Walked
    /\ pc = "done"
    /\ tree.type = "FRAME"
    /\ DOMAIN tree = DOMAIN MergeGroups(1..Len(AttributeGroups)) \cup {"id", "name", "type"}
    /\ structure.tailwindClasses =
          "flex flex-col items-center justify-end gap-2 w-[16px] h-[8px] "
            \o "pt-4 pr-2 pb-4 pl-2 bg-red-500 border-2 border-black rounded "
            \o "text-[24px] font-inter font-bold leading-[32px] tracking-[0.050em] "
            \o "text-center opacity-[50%] shadow-[0px_4px_6px_rgb(0 0 0/0.25)]"

-----------------------------------------------------------------------------
(* C22 *)

\* The fetched tree is a single FRAME with a layout mode and, maybe, the two
\* alignments, and nothing else.
OneAlignment ==
    /\ Walked
    /\ tree.type = "FRAME"
    /\ {"id", "name", "type", "layoutMode"} \subseteq DOMAIN tree
    /\ DOMAIN tree \subseteq {"id", "name", "type", "layoutMode", "primaryAxisAlignItems",
                               "counterAxisAlignItems"}

\* " justify-*" and " items-*" of an alignment value, "" when the node has no
\* such property or the value is none of MIN, CENTER, MAX.
Justify(node, f) ==
    CASE Get(node, f) = "MIN"    -> " justify-start"
      [] Get(node, f) = "CENTER" -> " justify-center"
      [] Get(node, f) = "MAX"    -> " justify-end"
      [] OTHER                   -> ""
Items(node, f) ==
    CASE Get(node, f) = "MIN"    -> " items-start"
      [] Get(node, f) = "CENTER" -> " items-center"
      [] Get(node, f) = "MAX"    -> " items-end"
      [] OTHER                   -> ""

\* C22: with layout mode HORIZONTAL the primary-axis MIN, CENTER, MAX give
\* justify-start, justify-center, justify-end and the counter-axis ones
\* items-start, items-center, items-end; with layout mode VERTICAL the two are
\* swapped.  The two tokens depend on the layout mode and the alignment value
\* only.
C22_AlignmentCrossMapping ==
    (OneAlignment /\ Get(tree, "primaryAxisAlignItems") # "SPACE_BETWEEN") =>
        /\ tree.layoutMode = "HORIZONTAL" =>
              structure.tailwindClasses =
                  "flex flex-row" \o Justify(tree, "primaryAxisAlignItems")
                      \o Items(tree, "counterAxisAlignItems")
        /\ tree.layoutMode = "VERTICAL" =>
              structure.tailwindClasses =
                  "flex flex-col" \o Items(tree, "primaryAxisAlignItems")
                      \o Justify(tree, "counterAxisAlignItems")

\* A vertical node with primary MIN and counter CENTER has been walked.
C22_Witness ==
    /\ OneAlignment
    /\ tree.layoutMode = "VERTICAL"
    /\ Get(tree, "primaryAxisAlignItems") = "MIN"
    /\ Get(tree, "counterAxisAlignItems") = "CENTER"
    /\ structure.tailwindClasses = "flex flex-col items-start justify-center"

-----------------------------------------------------------------------------
(* C27 *)

\* C27: for every layout mode, primary-axis and counter-axis alignment the two
\* alignment tokens of a node address different axes: the node never gets two
\* justify-* tokens nor two items-* tokens.
C27_AlignmentsOnDifferentAxes ==
    \A l \in {"flex flex-row", "flex flex-col", "block"} :
    \A a, b \in {"start", "center", "end", "between"} :
        Walked =>
            /\ structure.tailwindClasses # l \o " justify-" \o a \o " justify-" \o b
            /\ structure.tailwindClasses # l \o " items-" \o a \o " items-" \o b

-----------------------------------------------------------------------------
(* C23 *)

\* The places of the fills of the fetched tree that are SOLID and not hidden.
VisibleSolid ==
    { k \in 1..Len(tree.fills) :
        /\ tree.fills[k].type = "SOLID"
        /\ ~("visible" \in DOMAIN tree.fills[k] /\ tree.fills[k].visible = FALSE) }

\* The first of them.
FirstVisibleSolid == CHOOSE k \in VisibleSolid : \A j \in VisibleSolid : k <= j

\* C23: the background-colour token of a node is the colour token of the first
\* fill in list order that is SOLID and not hidden, whatever fills come after
\* it and whatever hidden or non-SOLID fills come before it; a node without
\* such a fill (or whose first such fill has no colour) gets no
\* background-colour token.
C23_FirstVisibleSolidFill ==
    SingleFrame({"fills"}) =>
        IF VisibleSolid # {} /\ "color" \in DOMAIN tree.fills[FirstVisibleSolid]
        THEN structure.tailwindClasses =
                "block " \o colorClass("bg", commonColors, tree.fills[FirstVisibleSolid])
        ELSE structure.tailwindClasses = "block"

\* A node whose third fill is the first visible SOLID one, black, behind a
\* hidden white fill and a gradient and before a white fill, has been walked.
C23_Witness ==
    /\ SingleFrame({"fills"})
    /\ Len(tree.fills) = 4
    /\ tree.fills[1] = HiddenPaint
    /\ FirstVisibleSolid = 3
    /\ tree.fills[4].color = White
    /\ structure.tailwindClasses = "block bg-black"

-----------------------------------------------------------------------------
(* C24 *)

\* The integer nearest to a length given in tenths of a pixel, a half going up.
NearestPx(tenths) == CHOOSE n \in 0..(tenths \div 10 + 1) : 10 * n - 5 <= tenths /\ tenths < 10 * n + 5

\* C24: a node with a bounding box gets the width token w-[Wpx] and the height
\* token h-[Hpx], W and H being the box's width and height rounded to the
\* nearest integer; the lengths are never replaced by a spacing-scale token,
\* a length on the scale such as 16 included.
C24_SizeIsArbitraryValue ==
    SingleFrame({"absoluteBoundingBox"}) =>
        structure.tailwindClasses =
            "block w-[" \o ToString(NearestPx(tree.absoluteBoundingBox.width)) \o "px] h-["
                        \o ToString(NearestPx(tree.absoluteBoundingBox.height)) \o "px]"

\* A box 16 pixels wide and 7.5 pixels high has been walked.
C24_Witness ==
    /\ SingleFrame({"absoluteBoundingBox"})
    /\ tree.absoluteBoundingBox = [width |-> 160, height |-> 75]
    /\ structure.tailwindClasses = "block w-[16px] h-[8px]"

-----------------------------------------------------------------------------
(* C25 *)

RECURSIVE SameShape(_, _, _)
\* The annotated node st is the image of the input node at the given depth: it
\* has that depth and the node's id and type, and its children are the images
\* of the node's children, one level down, in the same order.
SameShape(node, st, depth) ==
    /\ st.depth = depth
    /\ st.id = Get(node, "id")
    /\ st.type = Get(node, "type")
    /\ Len(ChildrenOf(st)) = Len(ChildrenOf(node))
    /\ \A k \in 1..Len(ChildrenOf(node)) :
          SameShape(node.children[k], st.children[k], depth + 1)

\* The places of the nodes of the fetched tree whose id is the given one, in
\* pre-order.
PlacesOf(id) == { i \in 1..Len(Flat(tree)) : Get(Flat(tree)[i], "id") = id }

\* C25: the annotated tree has the shape and the order of the input tree: the
\* root is at depth 0, every child at its parent's depth plus one, the children
\* of a node in the order of the input; and the tokens of a node are computed
\* before any node below it is visited, a node's subtree being finished before
\* its next sibling is begun (pre-order).
C25_ShapeAndPreOrder ==
    Walked =>
        /\ structure.depth = 0
        /\ SameShape(tree, structure, 0)
        /\ Len(visited) = Len(Flat(tree))
        /\ \A i \in 1..Len(visited) : i \in PlacesOf(visited[i])

\* The example tree (a root with children A and B, A with two children) has
\* been walked: A, A's children, then B.
C25_Witness ==
    /\ Walked
    /\ tree = ExampleTree
    /\ visited = << NODE_ID, NODE_ID \o ".1", NODE_ID \o ".1.1", NODE_ID \o ".1.2",
                    NODE_ID \o ".2" >>
    /\ structure.children[1].children[2].depth = 2
    /\ structure.children[2].id = NODE_ID \o ".2"

-----------------------------------------------------------------------------
(* C26 *)

\* C26: the image request is issued only after the response of the root
\* request has arrived and the walk of the tree is complete; the urls are
\* merged, and the report is written, only after every request issued has
\* settled, the image request included; the report is written at most once.
C26_EventOrdering ==
    /\ Len(requests) > 0 => requests[1].endpoint = "nodes"
    /\ Len(ImageRequestsMade) > 0 =>
          /\ Len(responses) >= 1
          /\ rootResult = "fetched"
          /\ Walked
          /\ Len(visited) = Len(Flat(tree))
          /\ requests[2] = ImageRequestsMade[1]
    /\ (imageUrls # EmptyObject \/ (Walked /\ HasImageUrl(structure))) =>
          /\ imgResult # "none"
          /\ Len(responses) = 2
    /\ Written => Len(responses) = Len(requests)
    /\ (Written /\ Len(ImageRequestsMade) > 0) => imgResult # "none"
    /\ writes <= 1
    /\ Written <=> writes = 1

\* A run that fetched the root, walked it, made the image request, merged a
\* url and wrote the report.
C26_Witness ==
    /\ pc = "done"
    /\ Len(requests) = 2
    /\ Len(responses) = 2
    /\ imgResult = "resolved"
    /\ HasImageUrl(report.structure)
    /\ writes = 1

-----------------------------------------------------------------------------
(* C28 *)

\* The fetched tree is a single FRAME with four per-corner radii, with or
\* without a scalar corner radius beside them.
CornerRadii ==
    /\ SingleFrame({"rectangleCornerRadii"}) \/ SingleFrame({"rectangleCornerRadii", "cornerRadius"})
    /\ pc = "done"

\* C28: a node gets at most one border-radius token; the per-corner radii,
\* when present, decide it whatever the scalar corner radius is; and four
\* equal per-corner radii r give the token the scalar radius r gives, for
\* every r, 9999 (rounded-full) included.
C28_UniformRadiiAsScalar ==
    (CornerRadii /\ \A k \in 2..4 : tree.rectangleCornerRadii[k] = tree.rectangleCornerRadii[1]) =>
        structure.tailwindClasses =
            "block " \o Snapped("rounded", roundedMap, "-", tree.rectangleCornerRadii[1])

-----------------------------------------------------------------------------
(* C29 *)

\* The detail requests made so far.
PageRequestsMade == SubSeq(fileRequests, 2, Len(fileRequests))

\* C29: in getFileStructure the detail requests are issued one at a time in
\* page order, each after the one before it has settled; a failed detail
\* request does not stop the requests of the later pages; and the pages list
\* written has exactly one entry per page of the document, in page order, with
\* an error field exactly on the pages whose detail request failed.
C29_OneEntryPerPage ==
    /\ Len(fileRequests) <= Len(fileResponses) + 1
    /\ \A k \in 1..Len(PageRequestsMade) :
          PageRequestsMade[k] = PageRequest(fileDocument.children[k])
    /\ fileWrites = 1 =>
          /\ Len(PageRequestsMade) = fileOutput.totalPages
          /\ fileOutput.totalPages = Len(ChildrenOf(fileDocument))
          /\ Len(fileOutput.pages) = fileOutput.totalPages
          /\ \A k \in 1..Len(fileOutput.pages) :
                /\ fileOutput.pages[k].id = fileDocument.children[k].id
                /\ fileOutput.pages[k].pageIndex = k - 1
                /\ "error" \in DOMAIN fileOutput.pages[k]
                      <=> makeRequest(fileResponses[k + 1]).state = "rejected"

-----------------------------------------------------------------------------
(* C30 *)

\* The k-th request of the enhanced extraction has settled with a rejection.
EnhRejected(k) == Len(enhResponses) >= k /\ makeRequest(enhResponses[k]).state = "rejected"

\* The request of the node has resolved with an answer that has the node.
EnhNodeReturned ==
    /\ Len(enhResponses) >= 1
    /\ LET r == makeRequest(enhResponses[1])
       IN  /\ r.state = "resolved"
           /\ "nodes" \in DOMAIN r.value
           /\ NODE_ID \in DOMAIN r.value.nodes

\* C30: in getEnhancedDesignData the requests of the node, of the design
\* tokens and of the component sets are issued one after another, each after
\* the one before it has settled; a failed design-token request leaves
\* designTokens null and a failed component-set request leaves
\* componentVariants {}, the run going on; the output is written at most
\* once, and a finished run has written it exactly when the request of the
\* node resolved with the node.
C30_SequentialAndAbsorbed ==
    /\ Len(enhRequests) <= Len(enhResponses) + 1
    /\ \A k \in 1..Len(enhRequests) :
          enhRequests[k].endpoint = << "nodes", "variables", "file" >>[k]
    /\ Len(enhRequests) >= 2 => ~EnhRejected(1)
    /\ EnhRejected(2) => (enhTokens = NullObject /\ Len(enhRequests) = 3)
    /\ EnhRejected(3) => enhComponentSets = EmptyObject
    /\ enhWrites <= 1
    /\ enhWrites = 1 <=> (enhPc = "done" /\ EnhNodeReturned)
    /\ enhWrites = 1 =>
          /\ Len(enhResponses) = 3
          /\ enhancedData.designTokens = enhTokens
          /\ enhancedData.componentVariants = enhComponentSets
          /\ enhancedData.structure = makeRequest(enhResponses[1]).value.nodes[NODE_ID].document

\* A finished run whose design-token and component-set requests both failed
\* and whose output is written with null and {}.
C30_Witness ==
    /\ enhPc = "done"
    /\ EnhRejected(2)
    /\ EnhRejected(3)
    /\ enhWrites = 1
    /\ enhancedData.designTokens = NullObject
    /\ enhancedData.componentVariants = EmptyObject

====
